---- MODULE Spec2Model ----
(***************************************************************************)
(* Model of the reliable job-processing substrate of the video-ad worker:  *)
(* the Redis task queue (workers/queue.py), the dispatcher loop and the    *)
(* startup recovery (workers/main.py), and the two sliding-window rate     *)
(* limiters (workers/rate_limiter.py, workers/fallback_limiter.py).        *)
(*                                                                         *)
(* Every Redis command is one atomic step; a Python function is the        *)
(* sequence of its commands, and processes interleave between commands.    *)
(* Lists are sequences whose index 1 is the LEFT end (LPUSH side); the     *)
(* dispatcher pops from the RIGHT end.                                     *)
(***************************************************************************)
EXTENDS Integers, Sequences, FiniteSets, TLC

\* ------------------------------------------------------------------ bounds
MaxJobs == 2          \* job ids are 1..MaxJobs, enqueued in this order
MaxJobsConc == 1      \* jobs enqueued when several replicas run
MaxTicks == 1         \* number of clock advances in one behaviour
MaxCrashes == 1       \* number of process kills in one behaviour
MaxAdminCalls == 1    \* number of retry_dead_letter calls in one behaviour
MaxRuns == 4          \* number of handler runs in one behaviour
MaxRequests == 2      \* rate limiter: max_requests ranges over 0..MaxRequests
MaxWindow == 2        \* rate limiter: window_seconds ranges over 1..MaxWindow
MaxLimiterTime == 6   \* rate limiter: the clock stops here (in clock units)
MaxCalls == 3         \* rate limiter: check_rate_limit calls in one behaviour
MaxWebRequests == 4   \* webhook requests in one behaviour
MaxPairCalls == 3     \* rate limiter: calls made on both backends side by side
MaxDepth == 4         \* autoscaler: LLEN of each list ranges over 0..MaxDepth
MaxReplicaCfg == 3    \* autoscaler: MIN_REPLICAS, MAX_REPLICAS range over 1..MaxReplicaCfg
MaxTarget == 2        \* autoscaler: TARGET_PER_REPLICA ranges over 1..MaxTarget
MaxAngles == 5        \* fashion job: master angles of an identity range over 0..MaxAngles
MaxCount == 3         \* metrics: the counters are incremented up to MaxCount in all
MaxThreads == 2       \* metrics: threads that call get_snapshot
MaxMetricTime == 3680 \* metrics: time.time() ranges over 0..MaxMetricTime
Res == 2              \* rate limiter: clock units per second
StartBalance == 2     \* projects: credit_balance of the user before the first request
MaxCreateCalls == 3   \* projects: create_project calls in one behaviour
MaxRerollCalls == 4   \* projects: reroll_scene calls in one behaviour

\* ------------------------------------------------------- program constants
MAX_RETRIES == 3
MAX_CONCURRENT_JOBS == 3
STALE_TASK_TIMEOUT == 600
META_TTL == 7200

Jobs == 1..MaxJobs
Workers == {1, 2}
TickSteps == {STALE_TASK_TIMEOUT, STALE_TASK_TIMEOUT + 1, META_TTL}

VARIABLES
    pending,      \* taskqueue:jobs
    processing,   \* taskqueue:processing
    dead,         \* taskqueue:dead_letter
    meta,         \* taskqueue:meta:{job_id}, one record per job id
    now,          \* time.time(), whole seconds
    ticks,        \* clock advances so far
    nextJob,      \* next job id a client submits
    pc,           \* per worker: position in lifespan / _queue_consumer_loop
    job,          \* per worker: job_id local (0 = none)
    rtr,          \* per worker: nack_task's local `retries`
    items,        \* per worker: recover_stale_tasks' remaining processing_items
    recovered,    \* per worker: recover_stale_tasks' local `recovered`
    recNow,       \* per worker: recover_stale_tasks' local `now`
    task_type,    \* per worker: the loop's local task_type ("none" = not read)
    outcome,      \* per worker: how the handler of the current job ended
    crashes,      \* process kills so far
    runs,         \* handler runs so far
    adminPc,      \* operator: position in retry_dead_letter
    adminJob,     \* operator: job_id argument
    adminRet,     \* operator: last return value of retry_dead_letter
    adminCalls,   \* retry_dead_letter calls so far
    acked,        \* history: jobs for which ack_task removed the id
    requeued,     \* history: jobs pushed back by nack / recovery / retry
    deqAt,        \* history: time of the last BLMOVE of each job (0 = never)
    bare,         \* history: jobs whose last dequeue_task found no metadata record
    orphaned,     \* history: jobs a killed dispatcher left in taskqueue:processing
    nacks,        \* history: nack_task calls that returned, per job, since its
                  \*          enqueue or since retry_dead_letter last reset its retries
    rlMax,        \* max_requests of the check_rate_limit calls
    rlWindow,     \* window_seconds of the check_rate_limit calls
    zset,         \* ratelimit:{user_id}: scores of the sorted set (member = str(score))
    zexp,         \* ratelimit:{user_id}: time at which the key expires (0 = no key)
    cpc,          \* per replica: position in rate_limiter.check_rate_limit
    cnow,         \* per replica: its local `now`
    ccount,       \* per replica: its local `current_count`
    cret,         \* per replica: the triple its last call returned
    rcalls,       \* rate_limiter.check_rate_limit calls so far
    request_log,  \* fallback_limiter._request_log[user_id]
    fret,         \* the triple the last fallback_limiter.check_rate_limit returned
    fcalls,       \* fallback_limiter.check_rate_limit calls so far
    allowedR,     \* history: timestamps of the calls rate_limiter allowed
    allowedF,     \* history: timestamps of the calls fallback_limiter allowed
    lastRem,      \* history: remaining of the last allowed call, per backend (-1 = none)
    active_jobs,  \* fallback_limiter._active_jobs
    inline,       \* inline jobs (_run_and_release threads): how many are at each position
    redis_client, \* get_redis() in the serving processes: TRUE a client, FALSE None
    hpc,          \* per replica: position in handle_webhook (Redis mode)
    enq,          \* per replica: the job of its last enqueue_task call, the job's
                  \* position when the transaction committed, the value returned
    resp,         \* per replica: the HTTP response of its last request
    fpc,          \* fallback mode: position in handle_webhook
    fresp,        \* fallback mode: the HTTP response of the last request
    before,       \* history: _active_jobs and the request log when the last
                  \*          fallback-mode request arrived
    requests,     \* webhook requests received so far
    scaling,      \* autoscaler: the inputs and the result of get_scaling_decision
    fashion,      \* process_fashion_job: its stage and the locals of stage 1
    gateway,      \* one gateway HTTP call: its retry loop and the responses it got
    metrics,      \* metrics.py: _counters, _timeseries, _recent_errors
    mnow,         \* metrics.py: time.time(), in seconds
    snap,         \* per thread in get_snapshot: its position and its minute_now
    snapshot,     \* the dictionary the last get_snapshot returned
    auth,         \* WorkerAuthMiddleware: the last request and what dispatch did with it
    profile,      \* Supabase: the user's profiles row and their credit_transactions rows
    projects,     \* Supabase: the projects table, by project id
    preq,         \* per replica: the project request it serves, its position and locals
    phist         \* history: project calls started, rerolls persisted per project

queueVars == <<pending, processing, dead, meta>>
clockVars == <<now, ticks>>
workerVars == <<pc, job, rtr, items, recovered, recNow, task_type, outcome>>
adminVars == <<adminPc, adminJob, adminRet, adminCalls>>
histVars == <<acked, requeued, deqAt, orphaned, nacks, bare>>
limiterVars == <<rlMax, rlWindow, zset, zexp, cpc, cnow, ccount, cret, rcalls,
                 request_log, fret, fcalls, allowedR, allowedF, lastRem>>
handlerVars == <<redis_client, hpc, resp, enq>>
fallbackVars == <<active_jobs, inline, fpc, fresp, before, requests>>
\* ============================================================== metrics
\* metrics.py
MAX_MINUTES == 60

SnapThreads == 1..MaxThreads

\* The names the model uses: the counter of handle_webhook and the example of
\* an error counter in inc_counter's docstring.
MetricNames == {"requests.generate", "errors.kie_429"}

\* d.get(k, 0), and d[k] of a defaultdict(int)
Get(d, k) == IF k \in DOMAIN d THEN d[k] ELSE 0

\* _timeseries[name] of a defaultdict of defaultdicts
GetBuckets(d, k) == IF k \in DOMAIN d THEN d[k] ELSE <<>>

\* d[k] = v
Put(d, k, v) == [x \in DOMAIN d \cup {k} |-> IF x = k THEN v ELSE d[x]]

\* The sum of the values of a dictionary of numbers.
SumValues(d) ==
    LET RECURSIVE sum(_)
        sum(K) == IF K = {} THEN 0
                  ELSE LET k == CHOOSE x \in K : TRUE IN d[k] + sum(K \ {k})
    IN sum(DOMAIN d)

\* int(time.time()) // 60 * 60
minute_bucket(t) == (t \div 60) * 60

\* with _lock: _counters[name] += amount; _timeseries[name][_minute_bucket()] += amount
inc_counter_set(m, t, name, amount) ==
    [m EXCEPT !.counters = Put(@, name, amount),
              !.timeseries = Put(@, name,
                                 Put(GetBuckets(@, name), minute_bucket(t),
                                     Get(GetBuckets(@, name), minute_bucket(t)) + amount))]

inc_counter(m, t, name, amount) ==
    [m EXCEPT !.counters = Put(@, name, Get(@, name) + amount),
              !.timeseries = Put(@, name,
                                 Put(GetBuckets(@, name), minute_bucket(t),
                                     Get(GetBuckets(@, name), minute_bucket(t)) + amount))]

\* series: the MAX_MINUTES buckets ending at minute_now, oldest first.
Series(buckets, minute_now) ==
    [i \in 1..MAX_MINUTES |->
        [t |-> minute_now - (MAX_MINUTES - i) * 60,
         v |-> Get(buckets, minute_now - (MAX_MINUTES - i) * 60)]]

\* cutoff = minute_now - MAX_MINUTES * 60; del buckets[k] for k < cutoff
Cleanup(buckets, minute_now) ==
    [k \in {x \in DOMAIN buckets : x >= minute_now - MAX_MINUTES * 60} |-> buckets[k]]

projectVars == <<profile, projects, preq, phist>>
sideVars == <<scaling, fashion, gateway, metrics, mnow, snap, snapshot, auth, projectVars>>
\* The queue, the workers, the limiters and the handlers.
mainVars == <<queueVars, clockVars, nextJob, workerVars, crashes, runs, adminVars,
              histVars, limiterVars, handlerVars, fallbackVars>>

\* models.MAX_REROLLS
MAX_REROLLS == 3

\* uuid4() of the create_project calls, in the order of the calls.
ProjectIds == 1..MaxCreateCalls

\* A project id without a row; the row of a project otherwise.
NoProject == [ex |-> FALSE, pipeline_status |-> "", credits_paid |-> FALSE,
              scene_history |-> <<>>, active_scene_index |-> 0, reroll_count |-> 0]

\* A replica that serves no project request; code is the status of its last answer.
NoProjectRequest == [pc |-> "idle", project_id |-> 0, balance |-> 0, reroll_count |-> 0,
                     history |-> <<>>, code |-> 0]

\* The pipeline and the gateways are idle; the user has credits and no project.
InitSide ==
    /\ fashion = [stage |-> "idle", master_urls |-> 0, i |-> 0, on_model_urls |-> <<>>,
                  succeeded |-> {}]
    /\ gateway = [status |-> "idle", impl |-> "kie", attempt |-> 0, history |-> <<>>]
    /\ metrics = [counters |-> <<>>, timeseries |-> <<>>, recent_errors |-> <<>>]
    /\ mnow = 0
    /\ snap = [t \in SnapThreads |-> [pc |-> "idle", minute_now |-> 0]]
    /\ snapshot = [counters |-> <<>>, timeseries |-> <<>>, recent_errors |-> <<>>]
    /\ auth = [status |-> "none"]
    /\ profile = [credit_balance |-> StartBalance, transactions |-> 0]
    /\ projects = [p \in ProjectIds |-> NoProject]
    /\ preq = [t \in Workers |-> NoProjectRequest]
    /\ phist = [creates |-> 0, rerolls |-> 0, performed |-> [p \in ProjectIds |-> 0]]
vars == <<queueVars, clockVars, nextJob, workerVars, crashes, runs, adminVars, histVars,
          limiterVars, handlerVars, fallbackVars, sideVars>>

\* ---------------------------------------------------------- Redis helpers
\* A hash that does not exist (never written, deleted or expired).  Of a hash
\* that exists the model keeps: payload (the fields task_type, payload, user_id,
\* enqueued_at of enqueue_task's mapping are present), status, retries,
\* started (processing_started_at, 0 = field absent) and exp (the time at which
\* its TTL runs out, 0 = no TTL), last_error (TRUE = the field holds a message).
NoMeta == [ex |-> FALSE, payload |-> FALSE, status |-> "", retries |-> 0,
           started |-> 0, exp |-> 0, last_error |-> FALSE]

\* The hash an HSET writes into: a new one, without a TTL, when it is absent.
Created(m) == IF m.ex THEN m ELSE [NoMeta EXCEPT !.ex = TRUE]

\* HSET key field value
HSet(m, f, v) == [Created(m) EXCEPT ![f] = v]

\* RPUSH key x: the variant that adds on the side the dispatcher pops from.
RPush(s, x) == Append(s, x)

\* LPUSH key x
LPush(s, x) == <<x>> \o s

RECURSIVE LRem(_, _)
\* LREM key 1 x: removes the first occurrence counted from the left.
LRem(s, x) ==
    IF s = <<>> THEN <<>>
    ELSE IF Head(s) = x THEN Tail(s)
    ELSE <<Head(s)>> \o LRem(Tail(s), x)

Range(s) == {s[i] : i \in 1..Len(s)}
Count(s, x) == Cardinality({i \in 1..Len(s) : s[i] = x})

\* get_queue_position: LRANGE jobs 0 -1; len(queue_items) - i for the first
\* index i (from 0) holding job_id; None (0 here) when it is absent.
get_queue_position(queue_items, job_id) ==
    IF job_id \notin Range(queue_items) THEN 0
    ELSE LET k == CHOOSE i \in 1..Len(queue_items) :
                     /\ queue_items[i] = job_id
                     /\ \A m \in 1..(i - 1) : queue_items[m] # job_id
         IN Len(queue_items) - (k - 1)

\* No enqueue_task call made yet.
NoEnqueue == [job |-> 0, commit |-> 0, position |-> 0]

\* update_task_status
update_task_status(m, status) == HSet(m, "status", status)

\* get_task_meta returns None exactly when HGETALL is empty.
get_task_meta(m) == m.ex

\* ----------------------------------------------------------------- Init
NoReturn == [allowed |-> FALSE, remaining |-> 0, retry_after |-> 0]

\* A history of allowed calls: how many carry each timestamp.
Times == 0..MaxLimiterTime
NoCalls == [t \in Times |-> 0]
Record(h, t) == [h EXCEPT ![t] = h[t] + 1]

InitLimiter ==
    /\ zset = {} /\ zexp = 0
    /\ cpc = [c \in Workers |-> "idle"]
    /\ cnow = [c \in Workers |-> 0]
    /\ ccount = [c \in Workers |-> 0]
    /\ cret = [c \in Workers |-> NoReturn]
    /\ rcalls = 0
    /\ request_log = <<>>
    /\ fret = NoReturn
    /\ fcalls = 0
    /\ allowedR = NoCalls /\ allowedF = NoCalls
    /\ lastRem = [redis |-> -1, fallback |-> -1]

\* An HTTP response: status code and Retry-After header (0 = no header).
NoResponse == [code |-> 0, retry_after |-> 0]

\* Positions of an inline job: process_video_job under _run_and_release.
InlinePcs == {"submit", "poll", "sleep", "release"}

\* No request received, no inline job.
InitHandlers ==
    /\ redis_client = TRUE
    /\ hpc = [c \in Workers |-> "idle"]
    /\ resp = [c \in Workers |-> NoResponse]
    /\ enq = [c \in Workers |-> NoEnqueue]
    /\ active_jobs = 0
    /\ inline = [p \in InlinePcs |-> 0]
    /\ fpc = "idle"
    /\ fresp = NoResponse
    /\ before = [active_jobs |-> 0, request_log |-> <<>>]
    /\ requests = 0
    /\ InitSide

\* In addition, get_scaling_decision never called.
InitServing ==
    /\ InitHandlers
    /\ scaling = [called |-> FALSE]

InitQueue ==
    /\ pending = <<>> /\ processing = <<>> /\ dead = <<>>
    /\ meta = [j \in Jobs |-> NoMeta]
    /\ now = 1 /\ ticks = 0
    /\ nextJob = 1
    /\ pc = [w \in Workers |-> "down"]
    /\ job = [w \in Workers |-> 0]
    /\ rtr = [w \in Workers |-> 0]
    /\ items = [w \in Workers |-> <<>>]
    /\ recovered = [w \in Workers |-> 0]
    /\ recNow = [w \in Workers |-> 0]
    /\ task_type = [w \in Workers |-> "none"]
    /\ outcome = [w \in Workers |-> "none"]
    /\ crashes = 0 /\ runs = 0
    /\ adminPc = "idle" /\ adminJob = 0 /\ adminRet = FALSE /\ adminCalls = 0
    /\ acked = {} /\ requeued = {}
    /\ deqAt = [j \in Jobs |-> 0]
    /\ orphaned = {}
    /\ bare = {}
    /\ nacks = [j \in Jobs |-> 0]

\* The queue with the limiter at its defaults, never called.
Init ==
    /\ InitQueue
    /\ InitLimiter
    /\ InitServing
    /\ rlMax = MaxRequests /\ rlWindow = MaxWindow

\* ------------------------------------------------------------ the clock
\* Time passes by d seconds; Redis deletes every hash whose TTL has run out.
Tick(d) ==
    /\ ticks < MaxTicks
    /\ now' = now + d
    /\ ticks' = ticks + 1
    /\ meta' = [j \in Jobs |->
                  IF meta[j].ex /\ meta[j].exp # 0 /\ meta[j].exp <= now + d
                  THEN NoMeta ELSE meta[j]]
    /\ UNCHANGED <<pending, processing, dead, nextJob, workerVars, crashes, runs,
                   adminVars, histVars,
                   limiterVars, handlerVars, fallbackVars, sideVars>>

\* -------------------------------------------------------------- enqueue
\* enqueue_task: MULTI { HSET meta mapping; EXPIRE meta META_TTL; LPUSH jobs }.
enqueue_task ==
    /\ nextJob <= MaxJobs
    /\ meta' = [meta EXCEPT ![nextJob] =
                  [ex |-> TRUE, payload |-> TRUE, status |-> "queued", retries |-> 0,
                   started |-> meta[nextJob].started, exp |-> now + META_TTL,
                   last_error |-> meta[nextJob].last_error]]
    /\ pending' = LPush(pending, nextJob)
    /\ nextJob' = nextJob + 1
    /\ UNCHANGED <<processing, dead, clockVars, workerVars, crashes, runs,
                   adminVars, histVars,
                   limiterVars, fallbackVars, sideVars>>

\* ------------------------------------------------- lifespan: start, kill
\* Positions of _queue_consumer_loop between a dequeue and the end of its ack/nack.
HoldingPcs == {"deq_stamp", "get_meta", "mark", "run", "ack_lrem", "ack_status",
               "nack_hget", "nack_hset", "nack_err", "nack_lrem", "nack_push",
               "nack_status"}

\* Positions after dequeue_task's BLMOVE and before ack_task / nack_task is called.
OwningPcs == {"deq_stamp", "get_meta", "mark", "run", "ack_lrem", "nack_hget"}

\* A job is held when a live dispatcher has dequeued it and not finished with it.
Held(j) == \E w \in Workers : pc[w] \in HoldingPcs /\ job[w] = j

\* lifespan startup: the process comes up and calls recover_stale_tasks.
Start(w) ==
    /\ pc[w] = "down"
    /\ pc' = [pc EXCEPT ![w] = "rec_lrange"]
    /\ UNCHANGED <<queueVars, clockVars, nextJob, job, rtr, items, recovered,
                   recNow, task_type, outcome, crashes, runs, adminVars, histVars,
                   limiterVars, handlerVars, fallbackVars, sideVars>>

\* The process is killed: every local of the worker is gone, Redis is kept.
Crash(w) ==
    /\ pc[w] # "down"
    /\ crashes < MaxCrashes
    /\ crashes' = crashes + 1
    /\ pc' = [pc EXCEPT ![w] = "down"]
    /\ job' = [job EXCEPT ![w] = 0]
    /\ rtr' = [rtr EXCEPT ![w] = 0]
    /\ items' = [items EXCEPT ![w] = <<>>]
    /\ recovered' = [recovered EXCEPT ![w] = 0]
    /\ recNow' = [recNow EXCEPT ![w] = 0]
    /\ task_type' = [task_type EXCEPT ![w] = "none"]
    /\ outcome' = [outcome EXCEPT ![w] = "none"]
    /\ orphaned' = IF pc[w] \in OwningPcs THEN orphaned \cup {job[w]} ELSE orphaned
    /\ UNCHANGED <<queueVars, clockVars, nextJob, runs, adminVars,
                   acked, requeued, deqAt, nacks, bare,
                   limiterVars, handlerVars, fallbackVars, sideVars>>

\* -------------------------------------------------- recover_stale_tasks
\* The staleness test of recover_stale_tasks on one HGETALL result.
IsStaleAtTimeout(m, t) == m.started > 0 /\ (t - m.started) >= STALE_TASK_TIMEOUT

IsStale(m, t) == m.started > 0 /\ (t - m.started) > STALE_TASK_TIMEOUT

\* processing_items = LRANGE processing 0 -1; recovered = 0; now = time.time()
recover_lrange(w) ==
    /\ pc[w] = "rec_lrange"
    /\ items' = [items EXCEPT ![w] = processing]
    /\ recovered' = [recovered EXCEPT ![w] = 0]
    /\ recNow' = [recNow EXCEPT ![w] = now]
    /\ pc' = [pc EXCEPT ![w] = "rec_loop"]
    /\ UNCHANGED <<queueVars, clockVars, nextJob, job, rtr, task_type, outcome, crashes, runs,
                   adminVars, acked, requeued, deqAt, orphaned, bare, nacks,
                   limiterVars, handlerVars, fallbackVars, sideVars>>

\* for item in processing_items: meta = get_task_meta(job_id), then the branch.
recover_get_meta(w) ==
    /\ pc[w] = "rec_loop"
    /\ items[w] # <<>>
    /\ LET j == Head(items[w]) IN
         IF ~get_task_meta(meta[j])
         THEN /\ pc' = [pc EXCEPT ![w] = "rec_orphan"]
              /\ job' = [job EXCEPT ![w] = j]
              /\ UNCHANGED items
         ELSE IF IsStale(meta[j], recNow[w])
         THEN /\ pc' = [pc EXCEPT ![w] = "rec_lrem"]
              /\ job' = [job EXCEPT ![w] = j]
              /\ UNCHANGED items
         ELSE /\ pc' = [pc EXCEPT ![w] = "rec_loop"]
              /\ items' = [items EXCEPT ![w] = Tail(items[w])]
              /\ UNCHANGED job
    /\ UNCHANGED <<queueVars, clockVars, nextJob, rtr, recovered, recNow, task_type, outcome,
                   crashes, runs, adminVars, histVars,
                   limiterVars, handlerVars, fallbackVars, sideVars>>

\* orphan: LREM processing 1 job_id; continue
recover_orphan_lrem(w) ==
    /\ pc[w] = "rec_orphan"
    /\ processing' = LRem(processing, job[w])
    /\ items' = [items EXCEPT ![w] = Tail(items[w])]
    /\ job' = [job EXCEPT ![w] = 0]
    /\ pc' = [pc EXCEPT ![w] = "rec_loop"]
    /\ UNCHANGED <<pending, dead, meta, clockVars, nextJob, rtr, recovered,
                   recNow, task_type, outcome, crashes, runs, adminVars, histVars,
                   limiterVars, handlerVars, fallbackVars, sideVars>>

\* stale: LREM processing 1 job_id
recover_lrem(w) ==
    /\ pc[w] = "rec_lrem"
    /\ processing' = LRem(processing, job[w])
    /\ pc' = [pc EXCEPT ![w] = "rec_lpush"]
    /\ UNCHANGED <<pending, dead, meta, clockVars, nextJob, job, rtr, items,
                   recovered, recNow, task_type, outcome, crashes, runs, adminVars, histVars,
                   limiterVars, handlerVars, fallbackVars, sideVars>>

\* stale: LPUSH jobs job_id
recover_lpush(w) ==
    /\ pc[w] = "rec_lpush"
    /\ pending' = LPush(pending, job[w])
    /\ requeued' = requeued \cup {job[w]}
    /\ pc' = [pc EXCEPT ![w] = "rec_status"]
    /\ UNCHANGED <<processing, dead, meta, clockVars, nextJob, job, rtr, items,
                   recovered, recNow, task_type, outcome, crashes, runs, adminVars,
                   acked, deqAt, orphaned, bare, nacks,
                   limiterVars, handlerVars, fallbackVars, sideVars>>

\* A recovery that counts the lost attempt as a retry.
recover_status_counting(w) ==
    /\ pc[w] = "rec_status"
    /\ meta' = [meta EXCEPT ![job[w]] = HSet(update_task_status(meta[job[w]], "queued"), "retries",
                                               meta[job[w]].retries + 1)]
    /\ recovered' = [recovered EXCEPT ![w] = recovered[w] + 1]
    /\ items' = [items EXCEPT ![w] = Tail(items[w])]
    /\ job' = [job EXCEPT ![w] = 0]
    /\ pc' = [pc EXCEPT ![w] = "rec_loop"]
    /\ UNCHANGED <<pending, processing, dead, clockVars, nextJob, rtr,
                   recNow, task_type, outcome, crashes, runs, adminVars, histVars,
                   limiterVars, handlerVars, fallbackVars, sideVars>>

\* stale: update_task_status(job_id, "queued"); recovered += 1
recover_status(w) ==
    /\ pc[w] = "rec_status"
    /\ meta' = [meta EXCEPT ![job[w]] = update_task_status(meta[job[w]], "queued")]
    /\ recovered' = [recovered EXCEPT ![w] = recovered[w] + 1]
    /\ items' = [items EXCEPT ![w] = Tail(items[w])]
    /\ job' = [job EXCEPT ![w] = 0]
    /\ pc' = [pc EXCEPT ![w] = "rec_loop"]
    /\ UNCHANGED <<pending, processing, dead, clockVars, nextJob, rtr,
                   recNow, task_type, outcome, crashes, runs, adminVars, histVars,
                   limiterVars, handlerVars, fallbackVars, sideVars>>

\* return recovered
recover_return(w) ==
    /\ pc[w] = "rec_loop"
    /\ items[w] = <<>>
    /\ pc' = [pc EXCEPT ![w] = "rec_ret"]
    /\ UNCHANGED <<queueVars, clockVars, nextJob, job, rtr, items, recovered, recNow,
                   task_type, outcome, crashes, runs, adminVars, histVars,
                   limiterVars, handlerVars, fallbackVars, sideVars>>

\* lifespan: consumer = threading.Thread(target=_queue_consumer_loop); start()
consumer_start(w) ==
    /\ pc[w] = "rec_ret"
    /\ pc' = [pc EXCEPT ![w] = "deq"]
    /\ UNCHANGED <<queueVars, clockVars, nextJob, job, rtr, items, recovered,
                   recNow, task_type, outcome, crashes, runs, adminVars, histVars,
                   limiterVars, handlerVars, fallbackVars, sideVars>>

\* ----------------------------------------------------------- dequeue_task
\* BLMOVE jobs processing RIGHT LEFT (returns None, changing nothing, on timeout).
dequeue_blmove(w) ==
    /\ pc[w] = "deq"
    /\ pending # <<>>
    /\ LET j == pending[Len(pending)] IN
         /\ pending' = SubSeq(pending, 1, Len(pending) - 1)
         /\ processing' = LPush(processing, j)
         /\ job' = [job EXCEPT ![w] = j]
         /\ orphaned' = orphaned \ {j}
         /\ deqAt' = [deqAt EXCEPT ![j] = now]
         /\ bare' = IF meta[j].ex THEN bare \ {j} ELSE bare \cup {j}
    /\ task_type' = [task_type EXCEPT ![w] = "none"]
    /\ outcome' = [outcome EXCEPT ![w] = "none"]
    /\ pc' = [pc EXCEPT ![w] = "deq_stamp"]
    /\ UNCHANGED <<dead, meta, clockVars, nextJob, rtr, items, recovered, recNow,
                   crashes, runs, adminVars, acked, requeued, nacks,
                   limiterVars, handlerVars, fallbackVars, sideVars>>

\* HSET meta processing_started_at time.time()
dequeue_stamp(w) ==
    /\ pc[w] = "deq_stamp"
    /\ meta' = [meta EXCEPT ![job[w]] = HSet(meta[job[w]], "started", now)]
    /\ pc' = [pc EXCEPT ![w] = "get_meta"]
    /\ UNCHANGED <<pending, processing, dead, clockVars, nextJob, job, rtr, items,
                   recovered, recNow, task_type, outcome, crashes, runs, adminVars, histVars,
                   limiterVars, handlerVars, fallbackVars, sideVars>>

\* ------------------------------------------------- _queue_consumer_loop
\* meta = get_task_meta(job_id); if not meta: ack_task(job_id); continue
\* task_type = meta.get("task_type", ""); payload = json.loads(meta.get("payload", "{}"))
consumer_get_meta(w) ==
    /\ pc[w] = "get_meta"
    /\ IF get_task_meta(meta[job[w]])
       THEN /\ pc' = [pc EXCEPT ![w] = "mark"]
            /\ task_type' = [task_type EXCEPT ![w] =
                                IF meta[job[w]].payload THEN "generate" ELSE ""]
            /\ UNCHANGED outcome
       ELSE /\ pc' = [pc EXCEPT ![w] = "ack_lrem"]
            /\ outcome' = [outcome EXCEPT ![w] = "nometa"]
            /\ UNCHANGED task_type
    /\ UNCHANGED <<queueVars, clockVars, nextJob, job, rtr, items, recovered,
                   recNow, crashes, runs, adminVars, histVars,
                   limiterVars, handlerVars, fallbackVars, sideVars>>

\* update_task_status(job_id, "processing")
consumer_mark_processing(w) ==
    /\ pc[w] = "mark"
    /\ meta' = [meta EXCEPT ![job[w]] = update_task_status(meta[job[w]], "processing")]
    /\ pc' = [pc EXCEPT ![w] = "run"]
    /\ UNCHANGED <<pending, processing, dead, clockVars, nextJob, job, rtr, items,
                   recovered, recNow, task_type, outcome, crashes, runs, adminVars, histVars,
                   limiterVars, handlerVars, fallbackVars, sideVars>>

\* How a call of process_video_job / process_fashion_job can end:
\*   "ok"      the provider finished and the row was written completed;
\*   "failed"  provider FAILURE, a missing URL or any exception: caught by the
\*             function's own `except Exception`, which writes the row failed
\*             and returns normally;
\*   "raised"  as "failed", and the write of the failed row itself raised.
HandlerOutcomes == {"ok", "failed", "raised"}

\* Whether the handler call returns normally to the dispatcher.
ReturnsNormally(o) == o \in {"ok", "failed"}

\* The handler is called whatever the task type.
consumer_run_any(w) ==
    /\ pc[w] = "run"
    /\ IF FALSE
       THEN /\ outcome' = [outcome EXCEPT ![w] = "unknown"]
            /\ pc' = [pc EXCEPT ![w] = "ack_lrem"]
            /\ UNCHANGED runs
       ELSE /\ runs < MaxRuns
            /\ runs' = runs + 1
            /\ \E o \in HandlerOutcomes :
                 /\ outcome' = [outcome EXCEPT ![w] = o]
                 /\ pc' = [pc EXCEPT ![w] =
                              IF ReturnsNormally(o) THEN "ack_lrem" ELSE "nack_hget"]
    /\ UNCHANGED <<queueVars, clockVars, nextJob, job, rtr, items, recovered,
                   recNow, task_type, crashes, adminVars, acked, requeued, deqAt,
                   orphaned, bare, nacks, limiterVars, handlerVars, fallbackVars, sideVars>>

\* try: process_*_job(...) for a known task_type, a print for an unknown one;
\* ack_task  except Exception: nack_task
consumer_run(w) ==
    /\ pc[w] = "run"
    /\ IF task_type[w] = ""
       THEN /\ outcome' = [outcome EXCEPT ![w] = "unknown"]
            /\ pc' = [pc EXCEPT ![w] = "ack_lrem"]
            /\ UNCHANGED runs
       ELSE /\ runs < MaxRuns
            /\ runs' = runs + 1
            /\ \E o \in HandlerOutcomes :
                 /\ outcome' = [outcome EXCEPT ![w] = o]
                 /\ pc' = [pc EXCEPT ![w] =
                              IF ReturnsNormally(o) THEN "ack_lrem" ELSE "nack_hget"]
    /\ UNCHANGED <<queueVars, clockVars, nextJob, job, rtr, items, recovered,
                   recNow, task_type, crashes, adminVars, acked, requeued, deqAt,
                   orphaned, bare, nacks, limiterVars, handlerVars, fallbackVars, sideVars>>

\* A variant of ack_task's first command that leaves taskqueue:processing alone.
ack_keep(w) ==
    /\ pc[w] = "ack_lrem"
    /\ acked' = acked \cup {job[w]}
    /\ pc' = [pc EXCEPT ![w] = "ack_status"]
    /\ UNCHANGED <<pending, processing, dead, meta, clockVars, nextJob, job, rtr, items,
                   recovered, recNow, task_type, outcome, crashes, runs, adminVars,
                   requeued, deqAt, orphaned, bare, nacks,
                   limiterVars, handlerVars, fallbackVars, sideVars>>

\* --------------------------------------------------------------- ack_task
\* LREM processing 1 job_id
ack_lrem(w) ==
    /\ pc[w] = "ack_lrem"
    /\ processing' = LRem(processing, job[w])
    /\ acked' = acked \cup {job[w]}
    /\ pc' = [pc EXCEPT ![w] = "ack_status"]
    /\ UNCHANGED <<pending, dead, meta, clockVars, nextJob, job, rtr, items,
                   recovered, recNow, task_type, outcome, crashes, runs, adminVars,
                   requeued, deqAt, orphaned, bare, nacks,
                   limiterVars, handlerVars, fallbackVars, sideVars>>

\* update_task_status(job_id, "completed"); the loop goes back to dequeue
ack_status(w) ==
    /\ pc[w] = "ack_status"
    /\ meta' = [meta EXCEPT ![job[w]] = update_task_status(meta[job[w]], "completed")]
    /\ pc' = [pc EXCEPT ![w] = "acked"]
    /\ UNCHANGED <<pending, processing, dead, clockVars, nextJob, job, rtr, items,
                   recovered, recNow, task_type, outcome, crashes, runs, adminVars, histVars,
                   limiterVars, handlerVars, fallbackVars, sideVars>>

\* -------------------------------------------------------------- nack_task
\* retries = int(HGET meta retries or 0); retries += 1
nack_hget(w) ==
    /\ pc[w] = "nack_hget"
    /\ rtr' = [rtr EXCEPT ![w] = meta[job[w]].retries + 1]
    /\ pc' = [pc EXCEPT ![w] = "nack_hset"]
    /\ UNCHANGED <<queueVars, clockVars, nextJob, job, items, recovered, recNow,
                   task_type, outcome, crashes, runs, adminVars, histVars,
                   limiterVars, handlerVars, fallbackVars, sideVars>>

\* HSET meta retries str(retries)
nack_hset(w) ==
    /\ pc[w] = "nack_hset"
    /\ meta' = [meta EXCEPT ![job[w]] = HSet(meta[job[w]], "retries", rtr[w])]
    /\ pc' = [pc EXCEPT ![w] = "nack_err"]
    /\ UNCHANGED <<pending, processing, dead, clockVars, nextJob, job, rtr, items,
                   recovered, recNow, task_type, outcome, crashes, runs, adminVars, histVars,
                   limiterVars, handlerVars, fallbackVars, sideVars>>

\* if error_msg: HSET meta last_error error_msg[:500]
nack_err(w) ==
    /\ pc[w] = "nack_err"
    /\ \E nonEmpty \in BOOLEAN :
         meta' = IF nonEmpty
                 THEN [meta EXCEPT ![job[w]] = HSet(meta[job[w]], "last_error", TRUE)]
                 ELSE meta
    /\ pc' = [pc EXCEPT ![w] = "nack_lrem"]
    /\ UNCHANGED <<pending, processing, dead, clockVars, nextJob, job, rtr, items,
                   recovered, recNow, task_type, outcome, crashes, runs, adminVars, histVars,
                   limiterVars, handlerVars, fallbackVars, sideVars>>

\* LREM processing 1 job_id
nack_lrem(w) ==
    /\ pc[w] = "nack_lrem"
    /\ processing' = LRem(processing, job[w])
    /\ pc' = [pc EXCEPT ![w] = "nack_push"]
    /\ UNCHANGED <<pending, dead, meta, clockVars, nextJob, job, rtr, items,
                   recovered, recNow, task_type, outcome, crashes, runs, adminVars, histVars,
                   limiterVars, handlerVars, fallbackVars, sideVars>>

\* The branch of nack_task: requeue while retries < MAX_RETRIES.
NackRequeues(r) == r < MAX_RETRIES

\* LPUSH jobs job_id (requeue)  or  LPUSH dead_letter job_id
nack_push(w) ==
    /\ pc[w] = "nack_push"
    /\ IF NackRequeues(rtr[w])
       THEN /\ pending' = LPush(pending, job[w])
            /\ UNCHANGED dead
       ELSE /\ dead' = LPush(dead, job[w])
            /\ UNCHANGED pending
    /\ requeued' = requeued \cup {job[w]}
    /\ pc' = [pc EXCEPT ![w] = "nack_status"]
    /\ UNCHANGED <<processing, meta, clockVars, nextJob, job, rtr, items, recovered,
                   recNow, task_type, outcome, crashes, runs, adminVars,
                   acked, deqAt, orphaned, bare, nacks,
                   limiterVars, handlerVars, fallbackVars, sideVars>>

\* update_task_status(job_id, "queued" | "dead_letter")
nack_status(w) ==
    /\ pc[w] = "nack_status"
    /\ meta' = [meta EXCEPT ![job[w]] =
                  update_task_status(meta[job[w]],
                      IF NackRequeues(rtr[w]) THEN "queued" ELSE "dead_letter")]
    /\ nacks' = [nacks EXCEPT ![job[w]] = nacks[job[w]] + 1]
    /\ pc' = [pc EXCEPT ![w] = "nacked"]
    /\ UNCHANGED <<pending, processing, dead, clockVars, nextJob, job, rtr, items,
                   recovered, recNow, task_type, outcome, crashes, runs, adminVars,
                   acked, requeued, deqAt, orphaned, bare,
                   limiterVars, handlerVars, fallbackVars, sideVars>>

\* ack_task / nack_task has returned; the loop goes back to dequeue_task.
consumer_loop(w) ==
    /\ pc[w] \in {"acked", "nacked"}
    /\ pc' = [pc EXCEPT ![w] = "deq"]
    /\ job' = [job EXCEPT ![w] = 0]
    /\ rtr' = [rtr EXCEPT ![w] = 0]
    /\ task_type' = [task_type EXCEPT ![w] = "none"]
    /\ outcome' = [outcome EXCEPT ![w] = "none"]
    /\ UNCHANGED <<queueVars, clockVars, nextJob, items, recovered, recNow,
                   crashes, runs, adminVars, histVars,
                   limiterVars, handlerVars, fallbackVars, sideVars>>

\* ------------------------------------------------------ retry_dead_letter
\* get_dead_letter_jobs: LRANGE dead_letter 0 limit-1, the ids an operator sees.
get_dead_letter_jobs == Range(dead)

\* if not EXISTS meta: return False
retry_exists(j) ==
    /\ adminPc \in {"idle", "ret"}
    /\ j \in get_dead_letter_jobs
    /\ adminCalls < MaxAdminCalls
    /\ adminCalls' = adminCalls + 1
    /\ adminJob' = j
    /\ IF meta[j].ex
       THEN /\ adminPc' = "adm_lrem"
            /\ UNCHANGED adminRet
       ELSE /\ adminPc' = "ret"
            /\ adminRet' = FALSE
    /\ UNCHANGED <<queueVars, clockVars, nextJob, workerVars, crashes, runs, histVars,
                   limiterVars, handlerVars, fallbackVars, sideVars>>

\* LREM dead_letter 1 job_id
retry_lrem ==
    /\ adminPc = "adm_lrem"
    /\ dead' = LRem(dead, adminJob)
    /\ adminPc' = "adm_hset"
    /\ UNCHANGED <<pending, processing, meta, clockVars, nextJob, workerVars,
                   crashes, runs, adminJob, adminRet, adminCalls, histVars,
                   limiterVars, handlerVars, fallbackVars, sideVars>>

\* A variant of retry_dead_letter's HSET that leaves the retry count as it is.
retry_keep ==
    /\ adminPc = "adm_hset"
    /\ adminPc' = "adm_lpush"
    /\ UNCHANGED <<pending, processing, dead, meta, clockVars, nextJob, workerVars,
                   crashes, runs, adminJob, adminRet, adminCalls, histVars,
                   limiterVars, handlerVars, fallbackVars, sideVars>>

\* HSET meta retries "0"
retry_hset ==
    /\ adminPc = "adm_hset"
    /\ meta' = [meta EXCEPT ![adminJob] = HSet(meta[adminJob], "retries", 0)]
    /\ nacks' = [nacks EXCEPT ![adminJob] = 0]
    /\ adminPc' = "adm_lpush"
    /\ UNCHANGED <<pending, processing, dead, clockVars, nextJob, workerVars,
                   crashes, runs, adminJob, adminRet, adminCalls,
                   acked, requeued, deqAt, orphaned, bare,
                   limiterVars, handlerVars, fallbackVars, sideVars>>

\* LPUSH jobs job_id
retry_lpush ==
    /\ adminPc = "adm_lpush"
    /\ pending' = LPush(pending, adminJob)
    /\ requeued' = requeued \cup {adminJob}
    /\ adminPc' = "adm_status"
    /\ UNCHANGED <<processing, dead, meta, clockVars, nextJob, workerVars,
                   crashes, runs, adminJob, adminRet, adminCalls,
                   acked, deqAt, orphaned, bare, nacks,
                   limiterVars, handlerVars, fallbackVars, sideVars>>

\* update_task_status(job_id, "queued"); return True
retry_status ==
    /\ adminPc = "adm_status"
    /\ meta' = [meta EXCEPT ![adminJob] = update_task_status(meta[adminJob], "queued")]
    /\ adminPc' = "ret"
    /\ adminRet' = TRUE
    /\ UNCHANGED <<pending, processing, dead, clockVars, nextJob, workerVars,
                   crashes, runs, adminJob, adminCalls, histVars,
                   limiterVars, handlerVars, fallbackVars, sideVars>>

\* The operator's process is killed inside retry_dead_letter.
retry_crash ==
    /\ adminPc \in {"adm_lrem", "adm_hset", "adm_lpush", "adm_status"}
    /\ crashes < MaxCrashes
    /\ crashes' = crashes + 1
    /\ adminPc' = "idle"
    /\ adminJob' = 0
    /\ UNCHANGED <<queueVars, clockVars, nextJob, workerVars, runs,
                   adminRet, adminCalls, histVars,
                   limiterVars, handlerVars, fallbackVars, sideVars>>

\* ------------------------------------------------------- specifications
\* Positions inside a queue.py function (between two of its Redis commands).
MidOpPcs == {"deq_stamp", "ack_status", "nack_hset", "nack_err", "nack_lrem",
             "nack_push", "nack_status", "rec_loop", "rec_orphan", "rec_lrem",
             "rec_lpush", "rec_status"}
AdminMidOp == adminPc \in {"adm_lrem", "adm_hset", "adm_lpush", "adm_status"}

WorkerStep(w) ==
    \/ Start(w)
    \/ Crash(w)
    \/ recover_lrange(w)
    \/ recover_get_meta(w)
    \/ recover_orphan_lrem(w)
    \/ recover_lrem(w)
    \/ recover_lpush(w)
    \/ recover_status(w)
    \/ recover_return(w)
    \/ consumer_start(w)
    \/ dequeue_blmove(w)
    \/ dequeue_stamp(w)
    \/ consumer_get_meta(w)
    \/ consumer_mark_processing(w)
    \/ consumer_run(w)
    \/ ack_lrem(w)
    \/ ack_status(w)
    \/ nack_hget(w)
    \/ nack_hset(w)
    \/ nack_err(w)
    \/ nack_lrem(w)
    \/ nack_push(w)
    \/ nack_status(w)
    \/ consumer_loop(w)

AdminStep ==
    \/ \E j \in Jobs : retry_exists(j)
    \/ retry_lrem
    \/ retry_hset
    \/ retry_lpush
    \/ retry_status
    \/ retry_crash

\* Several replicas, one operator, clients and the clock, freely interleaved.
Next ==
    \/ \E d \in TickSteps : Tick(d)
    \/ (nextJob <= MaxJobsConc /\ enqueue_task /\ UNCHANGED handlerVars)
    \/ \E w \in Workers : WorkerStep(w)
    \/ AdminStep

Spec == Init /\ [][Next]_vars

\* One replica and one operator whose queue operations do not overlap: a step of
\* the dispatcher needs the operator outside retry_dead_letter, and conversely.
WorkerQuiet == pc[1] \notin MidOpPcs
AdminQuiet == ~AdminMidOp

NextSeq ==
    \/ \E d \in TickSteps : Tick(d)
    \/ enqueue_task /\ UNCHANGED handlerVars
    \/ AdminQuiet /\ Start(1)
    \/ AdminQuiet /\ Crash(1)
    \/ AdminQuiet /\ recover_lrange(1)
    \/ AdminQuiet /\ recover_get_meta(1)
    \/ AdminQuiet /\ recover_orphan_lrem(1)
    \/ AdminQuiet /\ recover_lrem(1)
    \/ AdminQuiet /\ recover_lpush(1)
    \/ AdminQuiet /\ recover_status(1)
    \/ AdminQuiet /\ recover_return(1)
    \/ AdminQuiet /\ consumer_start(1)
    \/ AdminQuiet /\ dequeue_blmove(1)
    \/ AdminQuiet /\ dequeue_stamp(1)
    \/ AdminQuiet /\ consumer_get_meta(1)
    \/ AdminQuiet /\ consumer_mark_processing(1)
    \/ AdminQuiet /\ consumer_run(1)
    \/ AdminQuiet /\ ack_lrem(1)
    \/ AdminQuiet /\ ack_status(1)
    \/ AdminQuiet /\ nack_hget(1)
    \/ AdminQuiet /\ nack_hset(1)
    \/ AdminQuiet /\ nack_err(1)
    \/ AdminQuiet /\ nack_lrem(1)
    \/ AdminQuiet /\ nack_push(1)
    \/ AdminQuiet /\ nack_status(1)
    \/ AdminQuiet /\ consumer_loop(1)
    \/ WorkerQuiet /\ \E j \in Jobs : retry_exists(j)
    \/ WorkerQuiet /\ retry_lrem
    \/ WorkerQuiet /\ retry_hset
    \/ WorkerQuiet /\ retry_lpush
    \/ WorkerQuiet /\ retry_status
    \/ WorkerQuiet /\ retry_crash

SpecSeq == Init /\ [][NextSeq]_vars

\* A step of the running process w: anything but its start and its kill.
DispatcherStep(w) == WorkerStep(w) /\ pc[w] # "down" /\ pc'[w] # "down"

\* SpecSeq where a running process keeps executing, a killed process is
\* started again by the platform, the operator finishes a call it began and
\* time passes.
SpecSeqFair ==
    /\ SpecSeq
    /\ WF_vars(AdminQuiet /\ DispatcherStep(1))
    /\ WF_vars(AdminQuiet /\ Start(1))
    /\ WF_vars(WorkerQuiet /\ AdminStep)
    /\ WF_vars(\E d \in TickSteps : Tick(d))

\* ============================================================ limiters
\* Times are in clock units, Res of them to the second; time.time() is a float.
\* int(x): truncation toward zero of a time difference given in clock units.
IntSeconds(x) == IF x >= 0 THEN x \div Res ELSE -((-x) \div Res)

Min(S) == CHOOSE x \in S : \A y \in S : x <= y

queueSide == <<queueVars, ticks, nextJob, workerVars, crashes, runs, adminVars, histVars>>

InitLimiterSpec ==
    /\ InitQueue
    /\ InitLimiter
    /\ InitServing
    /\ rlMax \in 0..MaxRequests
    /\ rlWindow \in 1..MaxWindow

\* One clock unit passes; Redis deletes the sorted set when its TTL has run out.
TickLimiter ==
    /\ now < MaxLimiterTime
    /\ now' = now + 1
    /\ IF zexp # 0 /\ zexp <= now + 1
       THEN zset' = {} /\ zexp' = 0
       ELSE UNCHANGED <<zset, zexp>>
    /\ UNCHANGED <<queueSide, rlMax, rlWindow, cpc, cnow, ccount, cret, rcalls,
                   request_log, fret, fcalls, allowedR, allowedF, lastRem,
                   handlerVars, fallbackVars, sideVars>>

\* ------------------------------------------ rate_limiter.check_rate_limit
\* now = time.time(); window_start = now - window_seconds
rl_sample(c) ==
    /\ cpc[c] \in {"idle", "ret"}
    /\ rcalls + fcalls < MaxCalls
    /\ rcalls' = rcalls + 1
    /\ cnow' = [cnow EXCEPT ![c] = now]
    /\ cpc' = [cpc EXCEPT ![c] = "pipe1"]
    /\ UNCHANGED <<queueSide, now, rlMax, rlWindow, zset, zexp, ccount, cret,
                   request_log, fret, fcalls, allowedR, allowedF, lastRem,
                   handlerVars, fallbackVars, sideVars>>

\* The denial's retry_after: int(oldest_score + window_seconds - now) + 1,
\* or window_seconds when ZRANGE 0 0 gave nothing.
RedisRetryAfter(entries, w, t) ==
    IF entries # {} THEN IntSeconds(Min(entries) + w * Res - t) + 1 ELSE w

\* MULTI { ZREMRANGEBYSCORE key 0 window_start; ZCARD key; ZRANGE key 0 0 },
\* then the test current_count >= max_requests.
rl_pipe1(c) ==
    /\ cpc[c] = "pipe1"
    /\ LET kept == {x \in zset : x > cnow[c] - rlWindow * Res}
           count == Cardinality(kept)
       IN /\ zset' = kept
          /\ zexp' = IF kept = {} THEN 0 ELSE zexp
          /\ ccount' = [ccount EXCEPT ![c] = count]
          /\ IF count >= rlMax
             THEN /\ cret' = [cret EXCEPT ![c] =
                        [allowed |-> FALSE, remaining |-> 0,
                         retry_after |-> RedisRetryAfter(kept, rlWindow, cnow[c])]]
                  /\ cpc' = [cpc EXCEPT ![c] = "ret"]
             ELSE /\ UNCHANGED cret
                  /\ cpc' = [cpc EXCEPT ![c] = "pipe2"]
    /\ UNCHANGED <<queueSide, now, rlMax, rlWindow, cnow, rcalls,
                   request_log, fret, fcalls, allowedR, allowedF, lastRem,
                   handlerVars, fallbackVars, sideVars>>

\* MULTI { ZADD key {str(now): now}; EXPIRE key window_seconds + 60 }; return True
rl_pipe2(c) ==
    /\ cpc[c] = "pipe2"
    /\ zset' = zset \cup {cnow[c]}
    /\ zexp' = now + (rlWindow + 60) * Res
    /\ cret' = [cret EXCEPT ![c] =
          [allowed |-> TRUE, remaining |-> rlMax - ccount[c] - 1, retry_after |-> 0]]
    /\ allowedR' = Record(allowedR, cnow[c])
    /\ lastRem' = [lastRem EXCEPT !.redis = rlMax - ccount[c] - 1]
    /\ cpc' = [cpc EXCEPT ![c] = "ret"]
    /\ UNCHANGED <<queueSide, now, rlMax, rlWindow, cnow, ccount, rcalls,
                   request_log, fret, fcalls, allowedF,
                   handlerVars, fallbackVars, sideVars>>

\* --------------------------------------- fallback_limiter.check_rate_limit
\* A trim that keeps the entry at the window boundary.
TrimKeepBoundary(log, ws) == SelectSeq(log, LAMBDA ts : ts >= ws)

\* timestamps = [ts for ts in timestamps if ts > window_start]
Trim(log, ws) == SelectSeq(log, LAMBDA ts : ts > ws)

\* The body of check_rate_limit on the request log `log` at time t: the log it
\* stores and the triple it returns.
FallbackCheck(log, t) ==
    LET timestamps == Trim(log, t - rlWindow * Res) IN
    IF Len(timestamps) >= rlMax
    THEN [log |-> timestamps,
          ret |-> [allowed |-> FALSE, remaining |-> 0,
                   retry_after |->
                       IntSeconds((IF timestamps # <<>> THEN timestamps[1] ELSE t)
                                  + rlWindow * Res - t) + 1]]
    ELSE [log |-> Append(timestamps, t),
          ret |-> [allowed |-> TRUE,
                   remaining |-> rlMax - (Len(timestamps) + 1),
                   retry_after |-> 0]]

\* What one call at time `now` does to the limiter's state and its histories.
FallbackCall ==
    LET chk == FallbackCheck(request_log, now) IN
    /\ request_log' = chk.log
    /\ fret' = chk.ret
    /\ allowedF' = IF chk.ret.allowed THEN Record(allowedF, now) ELSE allowedF
    /\ lastRem' = IF chk.ret.allowed
                  THEN [lastRem EXCEPT !.fallback = chk.ret.remaining]
                  ELSE lastRem

\* The whole function: the handlers that call it are coroutines of one event
\* loop, so two calls in one process never overlap.
fallback_check_rate_limit ==
    /\ rcalls + fcalls < MaxCalls
    /\ fcalls' = fcalls + 1
    /\ FallbackCall
    /\ UNCHANGED <<queueSide, now, rlMax, rlWindow, zset, zexp, cpc, cnow, ccount,
                   cret, rcalls, allowedR, handlerVars, fallbackVars, sideVars>>

\* Two replicas call the Redis limiter, one process calls the fallback limiter.
NextLimiter ==
    \/ TickLimiter
    \/ \E c \in Workers : rl_sample(c)
    \/ \E c \in Workers : rl_pipe1(c)
    \/ \E c \in Workers : rl_pipe2(c)
    \/ fallback_check_rate_limit

SpecLimiter == InitLimiterSpec /\ [][NextLimiter]_vars

\* ------------------------------------------- the two backends side by side
\* rate_limiter.check_rate_limit run alone (no other client between its two
\* pipelines) on the sorted set zs at time t: the set it leaves and the triple
\* it returns.
RedisCheck(zs, t) ==
    LET kept == {x \in zs : x > t - rlWindow * Res}
        current_count == Cardinality(kept)
    IN IF current_count >= rlMax
       THEN [zset |-> kept,
             ret |-> [allowed |-> FALSE, remaining |-> 0,
                      retry_after |-> RedisRetryAfter(kept, rlWindow, t)]]
       ELSE [zset |-> kept \cup {t},
             ret |-> [allowed |-> TRUE, remaining |-> rlMax - current_count - 1,
                      retry_after |-> 0]]

\* The same call (same principal, same timestamp) made on both backends.
pair_call ==
    /\ rcalls < MaxPairCalls
    /\ rcalls' = rcalls + 1
    /\ fcalls' = fcalls + 1
    /\ LET chk == RedisCheck(zset, now) IN
         /\ zset' = chk.zset
         /\ zexp' = IF chk.ret.allowed THEN now + (rlWindow + 60) * Res
                    ELSE IF chk.zset = {} THEN 0 ELSE zexp
         /\ cnow' = [cnow EXCEPT ![1] = now]
         /\ ccount' = [ccount EXCEPT ![1] =
                          Cardinality({x \in zset : x > now - rlWindow * Res})]
         /\ cret' = [cret EXCEPT ![1] = chk.ret]
         /\ allowedR' = IF chk.ret.allowed THEN Record(allowedR, now) ELSE allowedR
    /\ LET chk == FallbackCheck(request_log, now) IN
         /\ request_log' = chk.log
         /\ fret' = chk.ret
         /\ allowedF' = IF chk.ret.allowed THEN Record(allowedF, now) ELSE allowedF
    /\ lastRem' = [redis |-> IF RedisCheck(zset, now).ret.allowed
                              THEN RedisCheck(zset, now).ret.remaining
                              ELSE lastRem.redis,
                   fallback |-> IF FallbackCheck(request_log, now).ret.allowed
                                THEN FallbackCheck(request_log, now).ret.remaining
                                ELSE lastRem.fallback]
    /\ UNCHANGED <<queueSide, now, rlMax, rlWindow, cpc,
                   handlerVars, fallbackVars, sideVars>>

NextLimiterPair ==
    \/ TickLimiter
    \/ pair_call

SpecLimiterPair == InitLimiterSpec /\ [][NextLimiterPair]_vars

\* ================================================= the webhook handlers
\* handle_webhook and handle_fashion_webhook have the same admission code; one
\* set of actions stands for both.  A handler is a coroutine without an await:
\* within one process a request runs to its response before the next starts.
\* Replicas 1 and 2 have a Redis client; a third process has none and serves
\* in fallback mode, running its jobs inline on the thread pool.

\* if _active_jobs >= MAX_CONCURRENT_JOBS: return False; _active_jobs += 1; return True
acquire_job_slot_late(n) ==
    IF n > MAX_CONCURRENT_JOBS THEN [granted |-> FALSE, active_jobs |-> n]
    ELSE [granted |-> TRUE, active_jobs |-> n + 1]

acquire_job_slot(n) ==
    IF n >= MAX_CONCURRENT_JOBS THEN [granted |-> FALSE, active_jobs |-> n]
    ELSE [granted |-> TRUE, active_jobs |-> n + 1]

\* _active_jobs = max(0, _active_jobs - 1)
release_job_slot(n) == IF n - 1 > 0 THEN n - 1 ELSE 0

\* Inline jobs that hold a slot: every _run_and_release thread not yet through
\* its finally clause.
InlineRunning == inline["submit"] + inline["poll"] + inline["sleep"] + inline["release"]

\* REDIS_URL is set and the server answers the ping, or the processes serve
\* without Redis.
InitAdmit ==
    /\ InitQueue
    /\ InitLimiter
    /\ hpc = [c \in Workers |-> "idle"]
    /\ resp = [c \in Workers |-> NoResponse]
    /\ enq = [c \in Workers |-> NoEnqueue]
    /\ active_jobs = 0
    /\ inline = [p \in InlinePcs |-> 0]
    /\ fpc = "idle"
    /\ fresp = NoResponse
    /\ before = [active_jobs |-> 0, request_log |-> <<>>]
    /\ requests = 0
    /\ scaling = [called |-> FALSE]
    /\ InitSide
    /\ redis_client \in BOOLEAN
    /\ rlMax \in 1..MaxRequests
    /\ rlWindow \in 1..MaxWindow

\* ---------------------------------------------------- Redis mode (r is set)
\* A request arrives at replica c.
webhook_receive(c) ==
    /\ redis_client
    /\ hpc[c] = "idle"
    /\ requests < MaxWebRequests
    /\ rcalls + fcalls < MaxCalls
    /\ requests' = requests + 1
    /\ metrics' = inc_counter(metrics, mnow, "requests.generate", 1)
    /\ hpc' = [hpc EXCEPT ![c] = "limit"]
    /\ resp' = [resp EXCEPT ![c] = NoResponse]
    /\ enq' = [enq EXCEPT ![c] = NoEnqueue]
    /\ cpc' = [cpc EXCEPT ![c] = "idle"]
    /\ UNCHANGED <<queueSide, now, rlMax, rlWindow, zset, zexp, cnow, ccount, cret,
                   rcalls, request_log, fret, fcalls, allowedR, allowedF, lastRem,
                   redis_client, active_jobs, inline, fpc, fresp, before,
                   scaling, fashion, gateway, mnow, snap, snapshot, auth, projectVars>>

\* allowed, remaining, retry_after = rate_limiter.check_rate_limit(r, user_id)
webhook_rate_check(c) ==
    /\ hpc[c] = "limit"
    /\ cpc[c] = "idle"
    /\ rl_sample(c)

\* if not allowed: raise HTTPException(429, headers={"Retry-After": str(retry_after)})
webhook_limited_open(c) ==
    /\ hpc[c] = "limit"
    /\ cpc[c] = "ret"
    /\ hpc' = [hpc EXCEPT ![c] = "enqueue"]
    /\ UNCHANGED <<queueSide, now, limiterVars, redis_client, resp, enq, fallbackVars,
                   sideVars>>

webhook_limited(c) ==
    /\ hpc[c] = "limit"
    /\ cpc[c] = "ret"
    /\ IF ~cret[c].allowed
       THEN /\ resp' = [resp EXCEPT ![c] =
                  [code |-> 429, retry_after |-> cret[c].retry_after]]
            /\ hpc' = [hpc EXCEPT ![c] = "idle"]
       ELSE /\ hpc' = [hpc EXCEPT ![c] = "enqueue"]
            /\ UNCHANGED resp
    /\ UNCHANGED <<queueSide, now, limiterVars, redis_client, enq, fallbackVars, sideVars>>

\* task_queue.enqueue_task(...), its transaction: pipe.execute().  commit is
\* the position the job has in the queue as the transaction leaves it.
webhook_enqueue(c) ==
    /\ hpc[c] = "enqueue"
    /\ enqueue_task
    /\ hpc' = [hpc EXCEPT ![c] = "llen"]
    /\ enq' = [enq EXCEPT ![c] = [job |-> nextJob,
                                  commit |-> get_queue_position(pending', nextJob),
                                  position |-> 0]]
    /\ UNCHANGED <<redis_client, resp>>

\* position = redis_client.llen(QUEUE_KEY), a command of its own after the
\* transaction; enqueue_task returns it and the handler answers
\* {"message": "Job queued", "queue_position": position}
\* (the update of the jobs row in the database is outside the model)
webhook_position(c) ==
    /\ hpc[c] = "llen"
    /\ enq' = [enq EXCEPT ![c].position = Len(pending)]
    /\ hpc' = [hpc EXCEPT ![c] = "idle"]
    /\ resp' = [resp EXCEPT ![c] = [code |-> 200, retry_after |-> 0]]
    /\ UNCHANGED <<queueVars, clockVars, nextJob, workerVars, crashes, runs, adminVars,
                   histVars, limiterVars, redis_client, fallbackVars, sideVars>>

\* ------------------------------------------------ fallback mode (r is None)
\* allowed, remaining, retry_after = fallback_limiter.check_rate_limit(user_id)
\* if not allowed: raise HTTPException(429, headers={"Retry-After": str(retry_after)})
fallback_rate_check ==
    /\ ~redis_client
    /\ fpc = "idle"
    /\ requests < MaxWebRequests
    /\ requests' = requests + 1
    /\ metrics' = inc_counter(metrics, mnow, "requests.generate", 1)
    /\ before' = [active_jobs |-> active_jobs, request_log |-> request_log]
    /\ FallbackCall
    /\ IF FallbackCheck(request_log, now).ret.allowed
       THEN /\ fpc' = "admit"
            /\ fresp' = NoResponse
       ELSE /\ fpc' = "idle"
            /\ fresp' = [code |-> 429,
                         retry_after |-> FallbackCheck(request_log, now).ret.retry_after]
    /\ UNCHANGED <<queueSide, now, rlMax, rlWindow, zset, zexp, cpc, cnow, ccount,
                   cret, rcalls, fcalls, allowedR, handlerVars, active_jobs, inline,
                   scaling, fashion, gateway, mnow, snap, snapshot, auth, projectVars>>

\* if not fallback_limiter.acquire_job_slot(): raise HTTPException(503)
\* background_tasks.add_task(_run_and_release); return {"message": "Job received"}
fallback_admit ==
    /\ fpc = "admit"
    /\ fpc' = "idle"
    /\ LET slot == acquire_job_slot(active_jobs) IN
         /\ active_jobs' = slot.active_jobs
         /\ IF slot.granted
            THEN /\ inline' = [inline EXCEPT !["submit"] = @ + 1]
                 /\ fresp' = [code |-> 200, retry_after |-> 0]
            ELSE /\ fresp' = [code |-> 503, retry_after |-> 0]
                 /\ UNCHANGED inline
    /\ UNCHANGED <<queueSide, now, limiterVars, handlerVars, before, requests, sideVars>>

\* ------------------------------- _run_and_release: process_video_job, finally
\* provider.generate_video(...): a task id, or an exception that the function's
\* except clause turns into a failed row before it returns.
run_submit ==
    /\ inline["submit"] > 0
    /\ \E next \in {"poll", "release"} :
         inline' = [inline EXCEPT !["submit"] = @ - 1, ![next] = @ + 1]
    /\ UNCHANGED <<queueSide, now, limiterVars, handlerVars, active_jobs, fpc, fresp,
                   before, requests, sideVars>>

\* One iteration of `while True`: provider.get_task_status; completed -> break,
\* failed -> raise (caught, the function returns), anything else -> sleep.
run_poll ==
    /\ inline["poll"] > 0
    /\ \E next \in {"sleep", "release"} :
         inline' = [inline EXCEPT !["poll"] = @ - 1, ![next] = @ + 1]
    /\ UNCHANGED <<queueSide, now, limiterVars, handlerVars, active_jobs, fpc, fresp,
                   before, requests, sideVars>>

\* time.sleep(5), then the next iteration.
run_sleep ==
    /\ inline["sleep"] > 0
    /\ inline' = [inline EXCEPT !["sleep"] = @ - 1, !["poll"] = @ + 1]
    /\ UNCHANGED <<queueSide, now, limiterVars, handlerVars, active_jobs, fpc, fresp,
                   before, requests, sideVars>>

\* finally: fallback_limiter.release_job_slot()
run_release ==
    /\ inline["release"] > 0
    /\ inline' = [inline EXCEPT !["release"] = @ - 1]
    /\ active_jobs' = release_job_slot(active_jobs)
    /\ UNCHANGED <<queueSide, now, limiterVars, handlerVars, fpc, fresp, before,
                   requests, sideVars>>

NextAdmit ==
    \/ TickLimiter
    \/ \E c \in Workers : webhook_receive(c)
    \/ \E c \in Workers : webhook_rate_check(c)
    \/ \E c \in Workers : rl_pipe1(c)
    \/ \E c \in Workers : rl_pipe2(c)
    \/ \E c \in Workers : webhook_limited(c)
    \/ \E c \in Workers : webhook_enqueue(c)
    \/ \E c \in Workers : webhook_position(c)
    \/ fallback_rate_check
    \/ fallback_admit
    \/ run_submit
    \/ run_poll
    \/ run_sleep
    \/ run_release

SpecAdmit == InitAdmit /\ [][NextAdmit]_vars

\* Every inline thread that can take a step eventually takes one; how the
\* provider answers stays open.
SpecAdmitFair ==
    /\ SpecAdmit
    /\ WF_vars(run_submit) /\ WF_vars(run_poll) /\ WF_vars(run_sleep)
    /\ WF_vars(run_release) /\ WF_vars(fallback_admit)

\* =========================================================== autoscaler
\* a // b
Floor(a, b) == a \div b

\* math.ceil(a / b) for integers a >= 0, b >= 1
Ceil(a, b) == (a + b - 1) \div b

Max2(a, b) == IF a >= b THEN a ELSE b
Min2(a, b) == IF a <= b THEN a ELSE b

\* desired = max(MIN_REPLICAS, min(MAX_REPLICAS, desired))
ClampLow(d, lo, hi) == Max2(lo, d)

Clamp(d, lo, hi) == Max2(lo, Min2(hi, d))

\* desired = math.ceil(total_load / TARGET_PER_REPLICA) if total_load > 0
\*           else MIN_REPLICAS, then the clamp.
Desired(total_load, lo, hi, tg) ==
    Clamp(IF total_load > 0 THEN Ceil(total_load, tg) ELSE lo, lo, hi)

\* How the two LLEN reads of a call go: no client at all, both succeed, the
\* first raises, the second raises.
RedisReads == {"none", "ok", "fail_first", "fail_second"}

\* The configuration read from the environment at import, the lengths of the
\* two lists and the behaviour of Redis at the call.
InitAutoscale ==
    /\ InitQueue
    /\ InitLimiter
    /\ InitHandlers
    /\ rlMax = MaxRequests /\ rlWindow = MaxWindow
    /\ scaling \in
         {[called |-> FALSE, min_replicas |-> lo, max_replicas |-> hi,
           target_per_replica |-> tg, llen_jobs |-> q, llen_processing |-> p,
           redis |-> rd, queue_depth |-> 0, processing_count |-> 0,
           total_load |-> 0, desired_replicas |-> 0, reason |-> ""] :
              lo \in 1..MaxReplicaCfg, hi \in 1..MaxReplicaCfg, tg \in 1..MaxTarget,
              q \in 0..MaxDepth, p \in 0..MaxDepth, rd \in RedisReads}
    /\ scaling.min_replicas <= scaling.max_replicas

get_scaling_decision ==
    /\ ~scaling.called
    /\ LET queue_depth ==
               IF scaling.redis \in {"ok", "fail_second"} THEN scaling.llen_jobs ELSE 0
           processing_count ==
               IF scaling.redis = "ok" THEN scaling.llen_processing ELSE 0
           total_load == queue_depth + processing_count
           desired == Desired(total_load, scaling.min_replicas, scaling.max_replicas,
                              scaling.target_per_replica)
       IN scaling' = [scaling EXCEPT
              !.called = TRUE,
              !.queue_depth = queue_depth,
              !.processing_count = processing_count,
              !.total_load = total_load,
              !.desired_replicas = desired,
              !.reason = IF total_load = 0 THEN "idle"
                         ELSE IF desired = scaling.max_replicas THEN "at_max"
                         ELSE IF desired > 1 THEN "scaling_up"
                         ELSE "nominal"]
    /\ UNCHANGED <<mainVars, fashion, gateway, metrics, mnow, snap, snapshot, auth,
                   projectVars>>

NextAutoscale == get_scaling_decision

SpecAutoscale == InitAutoscale /\ [][NextAutoscale]_vars

\* ================================================= process_fashion_job
\* Stage 1 of the fashion pipeline.  The master angles are numbered 1..N in
\* the order of master_urls; a try-on result is named by its angle.
\* Everything but fashion itself.
fashionFrame == <<mainVars, scaling, gateway, metrics, mnow, snap, snapshot, auth,
                  projectVars>>

\* master_urls collected from identity_views (or the single master, or none).
fashion_collect ==
    /\ fashion.stage = "idle"
    /\ \E n \in 0..MaxAngles :
         fashion' = [fashion EXCEPT !.stage = IF n > 0 THEN "tryon" ELSE "tryon_default",
                                    !.master_urls = n, !.i = 1]
    /\ UNCHANGED fashionFrame

\* One iteration of `for i, person_url in enumerate(master_urls)`: try-on i
\* returns an image, or raises and is logged ("failed (continuing)").
fashion_tryon_abort ==
    /\ fashion.stage = "tryon"
    /\ fashion.i <= fashion.master_urls
    /\ \/ fashion' = [fashion EXCEPT !.on_model_urls = Append(@, fashion.i),
                                     !.succeeded = @ \cup {fashion.i},
                                     !.i = @ + 1]
       \/ fashion' = [fashion EXCEPT !.stage = "failed"]
    /\ UNCHANGED fashionFrame

fashion_tryon ==
    /\ fashion.stage = "tryon"
    /\ fashion.i <= fashion.master_urls
    /\ \/ fashion' = [fashion EXCEPT !.on_model_urls = Append(@, fashion.i),
                                     !.succeeded = @ \cup {fashion.i},
                                     !.i = @ + 1]
       \/ fashion' = [fashion EXCEPT !.i = @ + 1]
    /\ UNCHANGED fashionFrame

\* No identity: one try-on on the garment alone, outside any try/except of
\* stage 1; its exception fails the job.
fashion_tryon_default ==
    /\ fashion.stage = "tryon_default"
    /\ \/ fashion' = [fashion EXCEPT !.on_model_urls = <<0>>, !.stage = "check"]
       \/ fashion' = [fashion EXCEPT !.stage = "failed"]
    /\ UNCHANGED fashionFrame

\* The loop is over.
fashion_loop_end ==
    /\ fashion.stage = "tryon"
    /\ fashion.i > fashion.master_urls
    /\ fashion' = [fashion EXCEPT !.stage = "check"]
    /\ UNCHANGED fashionFrame

\* if not on_model_urls: raise Exception("No Golden Master images ...");
\* the function's except clause writes the job failed.  Otherwise stage 1.5
\* and the later stages get on_model_urls.
fashion_check ==
    /\ fashion.stage = "check"
    /\ fashion' = [fashion EXCEPT
                     !.stage = IF fashion.on_model_urls = <<>> THEN "failed" ELSE "stage_1_5"]
    /\ UNCHANGED fashionFrame

NextFashion ==
    \/ fashion_collect
    \/ fashion_tryon
    \/ fashion_tryon_default
    \/ fashion_loop_end
    \/ fashion_check

SpecFashion == Init /\ [][NextFashion]_vars

\* ============================================================= gateways
\* kie.py and fashn.py: MAX_RETRIES
GATEWAY_MAX_RETRIES == 5

\* What one HTTP request can come to: a 2xx response, a response with a
\* status in RETRYABLE_STATUS_CODES, a response with another 4xx/5xx status,
\* or a requests.RequestException raised by the transport.
Responses == {"ok", "retryable", "error", "transport"}

\* if attempt < MAX_RETRIES
CanRetryAlways(attempt) == TRUE

CanRetry(attempt) == attempt < GATEWAY_MAX_RETRIES

\* One iteration of the loop in kie._request_with_backoff.  raise_for_status
\* raises an HTTPError, which is a RequestException, inside the try: the
\* except clause handles it like a transport error.
kie_iteration(attempt, r) ==
    IF r = "transport" THEN (IF CanRetry(attempt) THEN "next" ELSE "raise")
    ELSE IF r # "retryable"
         THEN IF r = "ok" THEN "return"
              ELSE (IF CanRetry(attempt) THEN "next" ELSE "raise")
         ELSE IF CanRetry(attempt) THEN "next"
              ELSE "raise"   \* raise_for_status on the last attempt, re-raised by the except clause

\* One iteration of the submit loop of fashn._fal_submit_and_poll.
fashn_iteration(attempt, r) ==
    IF r = "transport" THEN (IF CanRetry(attempt) THEN "next" ELSE "raise")
    ELSE IF r = "retryable" /\ CanRetry(attempt) THEN "next"
    ELSE IF r = "ok" THEN "return"     \* raise_for_status passes; break
    ELSE (IF CanRetry(attempt) THEN "next" ELSE "raise")

gatewayFrame == <<mainVars, scaling, fashion, metrics, mnow, snap, snapshot, auth,
                  projectVars>>

gateway_call ==
    /\ gateway.status = "idle"
    /\ \E impl \in {"kie", "fashn"} :
         gateway' = [status |-> "running", impl |-> impl, attempt |-> 0, history |-> <<>>]
    /\ UNCHANGED gatewayFrame

\* for attempt in range(MAX_RETRIES + 1): one request and what the loop body
\* does with it.  When the range is exhausted the code after the loop runs:
\* kie raises last_exception, the Fashn submit loop falls through with the
\* last response.
gateway_attempt ==
    /\ gateway.status = "running"
    /\ gateway.attempt < GATEWAY_MAX_RETRIES + 1
    /\ \E r \in Responses :
         LET step == IF gateway.impl = "kie" THEN kie_iteration(gateway.attempt, r)
                     ELSE fashn_iteration(gateway.attempt, r)
             over == gateway.attempt + 1 = GATEWAY_MAX_RETRIES + 1
         IN gateway' = [gateway EXCEPT
                          !.history = Append(@, r),
                          !.attempt = IF step = "next" THEN @ + 1 ELSE @,
                          !.status = CASE step = "return" -> "returned"
                                       [] step = "raise" -> "raised"
                                       [] step = "next" /\ ~over -> "running"
                                       [] step = "next" /\ over /\ gateway.impl = "kie" -> "raised"
                                       [] OTHER -> "fell_through"]
    /\ UNCHANGED gatewayFrame

\* The caller is done with the result.
gateway_done ==
    /\ gateway.status \in {"returned", "raised"}
    /\ gateway' = [gateway EXCEPT !.status = "idle"]
    /\ UNCHANGED gatewayFrame

NextGateway ==
    \/ gateway_call
    \/ gateway_attempt
    \/ gateway_done

SpecGateway == Init /\ [][NextGateway]_vars

\* ------------------------------------------------------- metrics, as called
metricsFrame == <<mainVars, scaling, fashion, gateway, auth, projectVars>>

\* The clock of time.time() advances: within a minute, into the next minute,
\* or by an hour.  The calls happen in the first minutes of an hour.
MetricTicks == {40, 3600}

TickMetrics ==
    /\ \E d \in MetricTicks :
         /\ mnow + d <= MaxMetricTime
         /\ (mnow + d) % 3600 <= 80
         /\ mnow' = mnow + d
    /\ UNCHANGED <<metricsFrame, metrics, snap, snapshot>>

\* Some thread calls inc_counter(name) or inc_counter(name, amount).
call_inc_counter ==
    /\ \E name \in MetricNames, amount \in 1..2 :
         /\ SumValues(metrics.counters) + amount <= MaxCount
         /\ metrics' = inc_counter(metrics, mnow, name, amount)
    /\ UNCHANGED <<metricsFrame, mnow, snap, snapshot>>

\* get_snapshot, before the lock: now = time.time(); minute_now = ...
snapshot_sample(t) ==
    /\ snap[t].pc = "idle"
    /\ snap' = [snap EXCEPT ![t] = [pc |-> "lock", minute_now |-> minute_bucket(mnow)]]
    /\ UNCHANGED <<metricsFrame, metrics, mnow, snapshot>>

\* get_snapshot, with _lock: the series of every metric, the cleanup of its
\* old buckets, and the dictionary returned.
snapshot_locked(t) ==
    /\ snap[t].pc = "lock"
    /\ snap' = [snap EXCEPT ![t].pc = "idle"]
    /\ snapshot' = [counters |-> metrics.counters,
                    timeseries |-> [n \in DOMAIN metrics.timeseries |->
                                      Series(metrics.timeseries[n], snap[t].minute_now)],
                    recent_errors |-> metrics.recent_errors]
    /\ metrics' = [metrics EXCEPT
                     !.timeseries = [n \in DOMAIN @ |-> Cleanup(@[n], snap[t].minute_now)]]
    /\ UNCHANGED <<metricsFrame, mnow>>

NextMetrics ==
    \/ TickMetrics
    \/ call_inc_counter
    \/ \E t \in SnapThreads : snapshot_sample(t)
    \/ \E t \in SnapThreads : snapshot_locked(t)

SpecMetrics == Init /\ [][NextMetrics]_vars

\* =================================================== WorkerAuthMiddleware
\* request.url.path: in PUBLIC_PATHS, under /webhook, or anything else.
Paths == {"/health", "/webhook/generate", "/queue/status"}
PUBLIC_PATHS == {"/health"}

\* WORKER_SHARED_SECRET: unset ("") or set.
Secrets == {"", "s3cret", "other"}

\* ENVIRONMENT: unset, or one of the names.
Environments == {"unset", "development", "staging", "production"}

\* X-Worker-Secret as Starlette hands it over: absent, or the latin-1 decoding
\* of the bytes sent, which may hold characters outside ASCII ("s\xe9cret").
Headers == {"absent", "s3cret", "other", "s\\xe9cret"}

\* secrets.compare_digest(a, b) of two str: TypeError unless both are ASCII.
compare_digest(a, b) ==
    IF a # "s\\xe9cret" /\ b # "s\\xe9cret"
    THEN (IF a = b THEN "True" ELSE "False")
    ELSE "TypeError"

\* WorkerAuthMiddleware.dispatch: "call_next" runs the handler, the others
\* raise before it.
dispatch(path, secret, env, header) ==
    LET environment == IF env = "unset" THEN "development" ELSE env
        provided == IF header = "absent" THEN "" ELSE header
    IN IF path \in PUBLIC_PATHS THEN "call_next"
       ELSE IF path # "/webhook/generate" THEN "call_next"   \* not path.startswith("/webhook")
       ELSE IF secret = ""
            THEN IF environment = "development" THEN "call_next"
                 ELSE "HTTPException(500)"
       ELSE CASE compare_digest(provided, secret) = "True" -> "call_next"
              [] compare_digest(provided, secret) = "False" -> "HTTPException(401)"
              [] OTHER -> "TypeError"

authFrame == <<mainVars, scaling, fashion, gateway, metrics, mnow, snap, snapshot,
               projectVars>>

\* A request arrives at a process started with some configuration.
auth_request ==
    /\ auth.status \in {"none", "done"}
    /\ \E path \in Paths, secret \in Secrets, env \in Environments, header \in Headers :
         auth' = [status |-> "received", path |-> path, secret |-> secret, env |-> env,
                  header |-> header, result |-> "none"]
    /\ UNCHANGED authFrame

auth_dispatch ==
    /\ auth.status = "received"
    /\ auth' = [auth EXCEPT !.status = "done",
                            !.result = dispatch(auth.path, auth.secret, auth.env, auth.header)]
    /\ UNCHANGED authFrame

NextAuth ==
    \/ auth_request
    \/ auth_dispatch

SpecAuth == Init /\ [][NextAuth]_vars

\* ============================================ pipeline/project_service.py
projectFrame == <<mainVars, scaling, fashion, gateway, metrics, mnow, snap, snapshot, auth>>

\* The request of replica t is over with HTTP status code.
Answer(t, code) == [preq EXCEPT ![t] = [NoProjectRequest EXCEPT !.code = code]]

\* -------------------------------------------------------- create_project
\* project_id = str(uuid4()); SELECT credit_balance; if balance < 1: raise
\* ValueError (the route answers 402).
create_read(t) ==
    /\ preq[t].pc = "idle"
    /\ phist.creates < MaxCreateCalls
    /\ phist' = [phist EXCEPT !.creates = @ + 1]
    /\ preq' = IF profile.credit_balance < 1
               THEN Answer(t, 402)
               ELSE [preq EXCEPT ![t] = [NoProjectRequest EXCEPT
                                            !.pc = "deduct",
                                            !.project_id = phist.creates + 1,
                                            !.balance = profile.credit_balance]]
    /\ UNCHANGED <<projectFrame, profile, projects>>

\* new_balance = balance - 1; UPDATE profiles SET credit_balance = new_balance
create_deduct(t) ==
    /\ preq[t].pc = "deduct"
    /\ profile' = [profile EXCEPT !.credit_balance = preq[t].balance - 1]
    /\ preq' = [preq EXCEPT ![t].pc = "txn"]
    /\ UNCHANGED <<projectFrame, projects, phist>>

\* INSERT INTO credit_transactions (amount = -1, balance_after = new_balance)
create_txn(t) ==
    /\ preq[t].pc = "txn"
    /\ profile' = [profile EXCEPT !.transactions = @ + 1]
    /\ preq' = [preq EXCEPT ![t].pc = "insert"]
    /\ UNCHANGED <<projectFrame, projects, phist>>

\* INSERT INTO projects (pipeline_status = DRAFT, credits_paid = True, ...)
create_insert(t) ==
    /\ preq[t].pc = "insert"
    /\ projects' = [projects EXCEPT ![preq[t].project_id] =
                       [NoProject EXCEPT !.ex = TRUE, !.pipeline_status = "DRAFT",
                                         !.credits_paid = TRUE]]
    /\ preq' = [preq EXCEPT ![t].pc = "generate"]
    /\ UNCHANGED <<projectFrame, profile, phist>>

\* An execute() call of step 2 raises (the database cannot be reached, or the
\* replica is stopped): the exception leaves create_project and the route
\* answers 500.
create_fail(t) ==
    /\ preq[t].pc \in {"deduct", "txn", "insert"}
    /\ preq' = Answer(t, 500)
    /\ UNCHANGED <<projectFrame, profile, projects, phist>>

\* scene_url = await generate_base_scene(...); an exception becomes a
\* RuntimeError and the project stays in DRAFT.
create_generate(t) ==
    /\ preq[t].pc = "generate"
    /\ \E ok \in BOOLEAN :
         preq' = IF ok THEN [preq EXCEPT ![t].pc = "save"] ELSE Answer(t, 500)
    /\ UNCHANGED <<projectFrame, profile, projects, phist>>

\* UPDATE projects SET pipeline_status = SCENE_GENERATED, scene_history =
\* [entry 0], active_scene_index = 0; SELECT the row and return it.
create_save(t) ==
    /\ preq[t].pc = "save"
    /\ projects' = [projects EXCEPT ![preq[t].project_id] =
                       [@ EXCEPT !.pipeline_status = "SCENE_GENERATED",
                                 !.scene_history = <<0>>,
                                 !.active_scene_index = 0]]
    /\ preq' = Answer(t, 200)
    /\ UNCHANGED <<projectFrame, profile, phist>>

\* ---------------------------------------------------------- reroll_scene
\* SELECT the project; the checks of its existence, its status and its
\* reroll_count; history = project["scene_history"].
reroll_read(t) ==
    /\ preq[t].pc = "idle"
    /\ phist.rerolls < MaxRerollCalls
    /\ phist' = [phist EXCEPT !.rerolls = @ + 1]
    /\ \E p \in ProjectIds :
         preq' = IF ~projects[p].ex THEN Answer(t, 404)
                 ELSE IF projects[p].pipeline_status # "SCENE_GENERATED" THEN Answer(t, 400)
                 ELSE IF projects[p].reroll_count >= MAX_REROLLS THEN Answer(t, 402)
                 ELSE [preq EXCEPT ![t] = [NoProjectRequest EXCEPT
                                              !.pc = "reroll_generate",
                                              !.project_id = p,
                                              !.reroll_count = projects[p].reroll_count,
                                              !.history = projects[p].scene_history]]
    /\ UNCHANGED <<projectFrame, profile, projects>>

\* scene_url = await generate_base_scene(user_id, prompt); an exception
\* leaves reroll_scene and the route answers 500.
reroll_generate(t) ==
    /\ preq[t].pc = "reroll_generate"
    /\ \E ok \in BOOLEAN :
         preq' = IF ok THEN [preq EXCEPT ![t].pc = "persist"] ELSE Answer(t, 500)
    /\ UNCHANGED <<projectFrame, profile, projects, phist>>

\* history.append(entry with id len(history)); UPDATE projects SET
\* reroll_count = reroll_count + 1, scene_history = history,
\* active_scene_index = new_index; SELECT the row and return it.
reroll_persist(t) ==
    /\ preq[t].pc = "persist"
    /\ projects' = [projects EXCEPT ![preq[t].project_id] =
                       [@ EXCEPT !.reroll_count = preq[t].reroll_count + 1,
                                 !.scene_history = Append(preq[t].history,
                                                          Len(preq[t].history)),
                                 !.active_scene_index = Len(preq[t].history)]]
    /\ phist' = [phist EXCEPT !.performed[preq[t].project_id] = @ + 1]
    /\ preq' = Answer(t, 200)
    /\ UNCHANGED <<projectFrame, profile>>

\* Two replicas serve the project routes of one user.
NextProject ==
    \/ \E t \in Workers : create_read(t)
    \/ \E t \in Workers : create_deduct(t)
    \/ \E t \in Workers : create_txn(t)
    \/ \E t \in Workers : create_insert(t)
    \/ \E t \in Workers : create_fail(t)
    \/ \E t \in Workers : create_generate(t)
    \/ \E t \in Workers : create_save(t)
    \/ \E t \in Workers : reroll_read(t)
    \/ \E t \in Workers : reroll_generate(t)
    \/ \E t \in Workers : reroll_persist(t)

SpecProject == Init /\ [][NextProject]_vars


\* ================================================================ claims
Enqueued == 1..(nextJob - 1)
InList(j) == j \in Range(pending) \cup Range(processing) \cup Range(dead)
Occurrences(j) == Count(pending, j) + Count(processing, j) + Count(dead, j)

\* A live process is between the LREM and the LPUSH of one move of job j.
InTransit(j) ==
    \/ \E w \in Workers : job[w] = j /\ pc[w] \in {"nack_push", "rec_lpush"}
    \/ (adminJob = j /\ adminPc \in {"adm_hset", "adm_lpush"})

\* Job j is in one of the three lists or in the hands of a live process.
Accounted(j) == InList(j) \/ Held(j) \/ InTransit(j)

\* C1: every job id occurs at most once across pending, in-flight and dead,
\* under any interleaving of the queue operations of several workers.
C1_QueueDisjoint == \A j \in Jobs : Occurrences(j) <= 1

\* C2: no job is ever lost: every enqueued job that was not acked is in
\* pending, in-flight or dead (or in the hands of a process that is alive),
\* also when a process is killed inside a queue operation.
C2_ZeroTaskLoss ==
    \A j \in Enqueued :
        (j \notin acked /\ meta[j].status # "completed") => Accounted(j)

\* C3: a job whose dispatcher was killed after dequeue_task moved it in-flight
\* stays in-flight while the process is down, and a recover_stale_tasks call
\* made more than STALE_TASK_TIMEOUT after that dequeue returns with the job in
\* pending, status queued, and counted in the return value.
C3_CrashRecovered ==
    \A j \in orphaned :
        /\ (pc[1] = "down" => j \in Range(processing))
        /\ (pc[1] = "rec_ret" /\ recNow[1] - deqAt[j] > STALE_TASK_TIMEOUT)
              => /\ j \in Range(pending)
                 /\ meta[j].status = "queued"
                 /\ recovered[1] >= 1

\* C4: the stored retry count of every job is at most MAX_RETRIES.
C4_RetryBound == \A j \in Jobs : meta[j].retries <= MAX_RETRIES

\* C5: FIFO within one replica: when a job B that was never nacked or
\* recovered has been dequeued, every job A enqueued before B that was never
\* nacked or recovered was dequeued too, and not later than B; so the single
\* dispatcher, which handles each job before its next dequeue, handles A first.
C5_FifoWithinReplica ==
    \A a, b \in Enqueued :
        (a < b /\ a \notin requeued /\ b \notin requeued /\ deqAt[b] > 0)
            => /\ deqAt[a] > 0
               /\ deqAt[a] <= deqAt[b]
               /\ a \notin Range(pending)
               /\ ~(\E w \in Workers : pc[w] = "run" /\ job[w] = a
                                       /\ b \in acked)

C5_Witness ==
    /\ requeued = {}
    /\ pc[1] = "run" /\ job[1] = 2
    /\ deqAt[1] > 0 /\ 1 \in acked

\* C7: a job whose processing failed is nacked, never acked: a dispatcher
\* whose handler call ended in a failure is in nack_task, not in ack_task.
C7_FailureIsNacked ==
    \A w \in Workers :
        outcome[w] \in {"failed", "raised"}
            => pc[w] \in {"nack_hget", "nack_hset", "nack_err", "nack_lrem",
                          "nack_push", "nack_status", "nacked"}

\* C8: round trip: when ack_task(j) returns for a job that was enqueued and
\* dequeued, j is in none of pending, in-flight, dead and its status is completed.
C8_AckRoundTrip ==
    [][\A w \in Workers :
          (pc[w] = "ack_status" /\ pc'[w] = "acked")
             => /\ job[w] \in Enqueued
                /\ job[w] \notin Range(pending') \cup Range(processing') \cup Range(dead')
                /\ meta'[job[w]].status = "completed"]_vars

C8_Witness == pc[1] = "acked" /\ outcome[1] = "ok" /\ meta[job[1]].status = "completed"

\* C9: when nack_task(j) returns, j is back in pending with status queued
\* while fewer than MAX_RETRIES nacks have happened, and the MAX_RETRIES-th
\* nack leaves j in dead with status dead_letter and in neither pending nor
\* in-flight; a dead-lettered job is not dequeued unless retry_dead_letter ran.
C9_DeadLettering ==
    [][\A w \in Workers :
          /\ (pc[w] = "nack_status" /\ pc'[w] = "nacked")
                => LET j == job[w] IN
                   IF nacks'[j] < MAX_RETRIES /\ meta'[j].retries < MAX_RETRIES
                   THEN /\ j \in Range(pending') /\ meta'[j].status = "queued"
                        /\ j \notin Range(processing') \cup Range(dead')
                   ELSE /\ j \in Range(dead') /\ meta'[j].status = "dead_letter"
                        /\ j \notin Range(pending') \cup Range(processing')
          /\ (pc[w] = "deq" /\ pc'[w] = "deq_stamp")
                => job'[w] \notin Range(dead)]_vars

\* C10: retry_dead_letter(j) for a job in dead returns True with j out of
\* dead, in pending, retries 0 and status queued; when j has no metadata
\* record it returns False and changes no list and no record.
C10_RetryDeadLetter ==
    [][/\ (adminPc = "adm_status" /\ adminPc' = "ret")
          => /\ adminRet'
             /\ adminJob \notin Range(dead')
             /\ adminJob \in Range(pending')
             /\ meta'[adminJob].retries = 0
             /\ meta'[adminJob].status = "queued"
       /\ (adminPc \in {"idle", "ret"} /\ adminCalls' # adminCalls)
          => IF meta[adminJob'].ex
             THEN adminPc' = "adm_lrem"
             ELSE /\ adminPc' = "ret" /\ ~adminRet'
                  /\ queueVars' = queueVars]_vars

C10_Witness ==
    /\ adminPc = "ret" /\ adminRet
    /\ adminJob \in Range(pending) /\ meta[adminJob].retries = 0

\* Allowed calls, of the history h, whose timestamp lies in the window ending at t.
RECURSIVE SumOver(_, _)
SumOver(h, S) ==
    IF S = {} THEN 0
    ELSE LET x == CHOOSE y \in S : TRUE IN h[x] + SumOver(h, S \ {x})

AllowedInWindow(h, t) ==
    SumOver(h, {u \in Times : u > t - rlWindow * Res /\ u <= t})

\* C6: with max_requests >= 1, for both backends and every window position,
\* the allowed calls whose timestamps lie in one window number at most max_requests.
C6_RateLimiterCorrect ==
    rlMax >= 1 =>
        \A t \in Times :
            /\ AllowedInWindow(allowedR, t) <= rlMax
            /\ AllowedInWindow(allowedF, t) <= rlMax

\* ---------------------------------------------------------------------
\* C11: a request that check_rate_limit denies is answered 429 with the
\* limiter's retry_after in Retry-After and goes no further: its handler never
\* reaches the enqueue or the slot acquisition, and its answer leaves the queue
\* lists, the job metadata, the active-job counter and the inline jobs as they
\* were.  The lists and the metadata change only in the enqueue of a request
\* the limiter allowed; the counter rises only for such a request.
C11_DenyAnswers429 ==
    [][ /\ \A c \in Workers :
             (hpc[c] = "limit" /\ cpc[c] = "ret" /\ ~cret[c].allowed) =>
                 /\ hpc'[c] \in {"limit", "idle"}
                 /\ hpc'[c] = "idle" =>
                       /\ resp'[c] = [code |-> 429, retry_after |-> cret[c].retry_after]
                       /\ UNCHANGED <<queueVars, active_jobs, inline>>
        /\ (fpc = "idle" /\ requests' # requests /\ ~redis_client
               /\ ~FallbackCheck(request_log, now).ret.allowed) =>
                 /\ fpc' = "idle"
                 /\ fresp' = [code |-> 429,
                              retry_after |-> FallbackCheck(request_log, now).ret.retry_after]
                 /\ fresp' = [code |-> 429, retry_after |-> fret'.retry_after]
                 /\ UNCHANGED <<queueVars, active_jobs, inline>>
        /\ queueVars' # queueVars =>
                 \E c \in Workers : /\ hpc[c] = "enqueue" /\ cret[c].allowed
                                    /\ hpc'[c] = "llen"
        /\ active_jobs' > active_jobs => (fpc = "admit" /\ fret.allowed)
      ]_vars

\* Replica 1 has answered 429 with a Retry-After of at least a second while a
\* job admitted earlier waits in the queue.
C11_Witness ==
    /\ hpc[1] = "idle" /\ resp[1].code = 429 /\ resp[1].retry_after >= 1
    /\ ~cret[1].allowed
    /\ pending # <<>>

\* ---------------------------------------------------------------------
\* C12: a fallback-mode request rejected with 503 (acquire_job_slot returned
\* False) changes nothing: when the 503 is sent the active-job counter and the
\* principal's request log are what they were when the request arrived.
C12_Reject503NoChange ==
    [][ (fpc = "admit" /\ fpc' = "idle" /\ fresp'.code = 503) =>
            /\ active_jobs' = before.active_jobs
            /\ request_log' = before.request_log
      ]_vars

C14_SlotsReleased ==
    /\ [](InlineRunning = 0 => active_jobs = 0)
    /\ (active_jobs > 0) ~> (active_jobs = 0)

\* ---------------------------------------------------------------------
\* C15: polling ends: a job inside the poll loop of process_video_job (an
\* iteration or its sleep) eventually is outside it, also when the provider
\* reports an in-progress status at every poll.
C15_PollingBounded ==
    (inline["poll"] + inline["sleep"] > 0) ~> (inline["poll"] + inline["sleep"] = 0)

\* ---------------------------------------------------------------------
\* C16: crash recovery is live: a job that a killed dispatcher left in
\* taskqueue:processing is eventually dispatched again (moved back to pending
\* and dequeued), also when the process restarts less than STALE_TASK_TIMEOUT
\* after the dequeue.  Stated for the jobs whose dequeue was complete (the
\* processing_started_at stamp is in the metadata) from the moment they are
\* stale.
C16_RecoveryLive ==
    \A j \in Jobs :
        (j \in orphaned /\ IsStale(meta[j], now) /\ pc[1] # "down")
            ~> (j \notin orphaned)

\* ---------------------------------------------------------------------
\* C17: the two backends have the same contract: given the same calls (same
\* principal, same timestamps, same max_requests and window_seconds) they
\* return the same (allowed, remaining, retry_after) at every call.
C17_BackendsAgree ==
    rcalls > 0 => cret[1] = fret

\* The oldest timestamp of an allowed call still in the window that ends at t.
OldestInWindow(h, t) ==
    Min({u \in Times : u > t - rlWindow * Res /\ u <= t /\ h[u] > 0})

\* The boundary rule for a call at time t that returned ret, h being the calls
\* allowed before it; retry_after is in whole seconds.
BoundaryRule(h, t, ret) ==
    LET count == AllowedInWindow(h, t) IN
    /\ count = rlMax - 1 => ret.allowed
    /\ count = rlMax =>
          /\ ~ret.allowed
          /\ ret.remaining = 0
          /\ count > 0 =>
                ret.retry_after =
                    IntSeconds(OldestInWindow(h, t) + rlWindow * Res - t) + 1

\* ---------------------------------------------------------------------
\* C18: with count allowed requests of the principal inside the window, a call
\* is allowed when count = max - 1 and denied when count = max, and the denial
\* returns remaining 0 and retry_after = oldest + window - now + 1 (in whole
\* seconds), oldest being the oldest timestamp still in the window; for both
\* backends.
C18_Boundary ==
    [][ rcalls' # rcalls =>
            /\ BoundaryRule(allowedF, now, fret')
            /\ BoundaryRule(allowedR, now, cret'[1])
      ]_vars

\* Every call allowed so far has its timestamp in the window that ends at t:
\* nothing has left the window since the principal's first call.
AllInWindow(h, t) ==
    \A u \in Times : h[u] > 0 => u > t - rlWindow * Res

\* ---------------------------------------------------------------------
\* C19: within one window the remaining values of consecutive allowed calls
\* never increase: an allowed call that returns while all earlier allowed
\* calls are still in the window returns at most the remaining of the allowed
\* call before it; for both backends.
C19_RemainingMonotone ==
    [][ /\ (allowedF' # allowedF /\ lastRem.fallback # -1 /\ AllInWindow(allowedF, now))
              => lastRem'.fallback <= lastRem.fallback
        /\ (allowedR' # allowedR /\ lastRem.redis # -1 /\ AllInWindow(allowedR, now))
              => lastRem'.redis <= lastRem.redis
      ]_vars

\* ---------------------------------------------------------------------
\* C20: whatever the two list lengths and the configuration (with
\* 1 <= MIN_REPLICAS <= MAX_REPLICAS and TARGET_PER_REPLICA >= 1), and whether
\* Redis is absent, answers, or fails at either read, get_scaling_decision
\* returns MIN_REPLICAS <= desired_replicas <= MAX_REPLICAS.
C20_AutoscalerBounds ==
    scaling.called =>
        /\ scaling.min_replicas <= scaling.desired_replicas
        /\ scaling.desired_replicas <= scaling.max_replicas

\* A load above what MAX_REPLICAS replicas take at the target was capped at
\* MAX_REPLICAS, with MIN_REPLICAS below it.
C20_Witness ==
    /\ scaling.called
    /\ scaling.redis = "ok"
    /\ scaling.total_load > scaling.max_replicas * scaling.target_per_replica
    /\ scaling.min_replicas < scaling.max_replicas
    /\ scaling.desired_replicas = scaling.max_replicas

\* The least n with n * tg >= load: ceil(load / tg) without a division.
LeastCover(load, tg) ==
    CHOOSE n \in 0..load : n * tg >= load /\ \A m \in 0..(n - 1) : m * tg < load

Ascending(S) ==
    LET RECURSIVE asc(_)
        asc(T) == IF T = {} THEN <<>>
                  ELSE LET m == CHOOSE x \in T : \A y \in T : x <= y
                       IN <<m>> \o asc(T \ {m})
    IN asc(S)

\* ---------------------------------------------------------------------
\* C22: with N >= 1 master angles, stage 1 fails the job exactly when all N
\* try-on calls failed; otherwise the later stages get exactly the results
\* of the try-ons that succeeded, in the order of the angles.
C22_PartialFailure ==
    fashion.master_urls >= 1 =>
        /\ fashion.stage = "failed" =>
              (fashion.succeeded = {} /\ fashion.i > fashion.master_urls)
        /\ fashion.stage = "stage_1_5" =>
              /\ fashion.succeeded # {}
              /\ fashion.i > fashion.master_urls
              /\ fashion.on_model_urls = Ascending(fashion.succeeded)
        /\ (fashion.stage = "check" /\ fashion.succeeded = {}) =>
              fashion.on_model_urls = <<>>

\* Of three or more angles the first and the last failed, one in between
\* succeeded, and the job went on.
C22_Witness ==
    /\ fashion.stage = "stage_1_5"
    /\ fashion.master_urls >= 3
    /\ 1 \notin fashion.succeeded
    /\ fashion.master_urls \notin fashion.succeeded
    /\ fashion.succeeded # {}

\* ---------------------------------------------------------------------
\* C23: one gateway HTTP call makes at most MAX_RETRIES + 1 = 6 attempts;
\* after 6 consecutive retryable responses or transport errors it has
\* stopped and raised; and it returns the response of the first success,
\* with no attempt after it.
C23_RetryBounded ==
    /\ GATEWAY_MAX_RETRIES + 1 = 6
    /\ Len(gateway.history) <= 6
    /\ gateway.status \in {"idle", "running", "returned", "raised"}
    /\ (/\ Len(gateway.history) = 6
        /\ \A k \in 1..6 : gateway.history[k] \in {"retryable", "transport"})
          => gateway.status \in {"raised", "idle"}
    /\ gateway.status = "raised" => \A k \in 1..Len(gateway.history) : gateway.history[k] # "ok"
    /\ \A k \in 1..Len(gateway.history) :
          gateway.history[k] = "ok" =>
             /\ k = Len(gateway.history)
             /\ gateway.status \in {"returned", "idle"}
    /\ gateway.status = "returned" =>
          gateway.history[Len(gateway.history)] = "ok"

\* Six retryable responses or transport errors in a row, of both kinds, and
\* the call has raised.
C23_Witness ==
    /\ gateway.status = "raised"
    /\ Len(gateway.history) = 6
    /\ \A k \in 1..6 : gateway.history[k] \in {"retryable", "transport"}
    /\ gateway.history[6] = "retryable"
    /\ gateway.history[1] = "transport"

\* The sum of the values v of a series.
SumSeries(series) ==
    LET RECURSIVE sum(_)
        sum(i) == IF i = 0 THEN 0 ELSE series[i].v + sum(i - 1)
    IN sum(Len(series))

C24_ErrorsReachMetrics ==
    \A w \in Workers :
       outcome[w] \in {"failed", "raised"} =>
          /\ \E n \in DOMAIN metrics.counters :
                n \in {"errors.kie_429"} /\ metrics.counters[n] >= 1
          /\ Len(metrics.recent_errors) >= 1

\* ---------------------------------------------------------------------
\* C25: every job id in pending, in-flight or dead has a live metadata
\* record with the fields written at enqueue, in every reachable state, the
\* expiry of a record after META_TTL being one of the steps.
C25_MetaLive ==
    \A j \in Range(pending) \cup Range(processing) \cup Range(dead) :
        meta[j].ex /\ meta[j].payload

\* ---------------------------------------------------------------------
\* C26: every job in the dead list has a stored retry count equal to
\* MAX_RETRIES, whatever the interleaving of nack_task, recover_stale_tasks
\* and retry_dead_letter.  Stated for the states in which no metadata record
\* can have expired yet, so that a violation is due to the interleaving alone.
C26_DeadHasMaxRetries ==
    \A j \in Range(dead) : now < META_TTL => meta[j].retries = MAX_RETRIES

\* ---------------------------------------------------------------------
\* C27: when nack_task requeues job j (retries < MAX_RETRIES), j is served
\* ahead of the jobs that were enqueued after it and are pending at the time
\* of the nack: dequeue_task takes the rightmost id, so j is to the right of
\* every such job.  Job ids are given out in the order of the enqueues.
C27_RetriesPreempt ==
    [][\A w \in Workers :
          (pc[w] = "nack_push" /\ pc'[w] = "nack_status" /\ NackRequeues(rtr[w]))
             => \A i \in 1..Len(pending') :
                   pending'[i] > job[w]
                      => \E p \in 1..Len(pending') : p > i /\ pending'[p] = job[w]]_vars

\* ---------------------------------------------------------------------
\* C28: the value enqueue_task returns is the job's 1-based queue position
\* at the moment its transaction committed (the number of jobs that will be
\* dequeued up to and including it), also when the enqueues of other clients
\* interleave with the call.
C28_ReturnsPosition ==
    \A c \in Workers :
       (hpc[c] = "idle" /\ enq[c].job # 0) =>
           /\ enq[c].commit >= 1
           /\ enq[c].position = enq[c].commit

\* ---------------------------------------------------------------------
\* C29: for a request to a /webhook path, with no secret configured the
\* middleware lets the request through for every environment name other
\* than production and answers 500 only in production; with a secret
\* configured, a missing or different X-Worker-Secret is always answered 401
\* and the handler is not run.  The first part is stated for the environment
\* names development, unset and production; for staging dispatch answers
\* 500, as its own comment says, and a violation found here is due to the
\* check of the secret alone.
C29_SecretBypass ==
    (auth.status = "done" /\ auth.path = "/webhook/generate") =>
        /\ (auth.secret = "" /\ auth.env # "staging") =>
              IF auth.env = "production" THEN auth.result = "HTTPException(500)"
              ELSE auth.result = "call_next"
        /\ (auth.secret # "" /\ auth.header # auth.secret) =>
              auth.result = "HTTPException(401)"

\* ---------------------------------------------------------------------
\* C33: recover_stale_tasks leaves in-flight a job whose age
\* now - processing_started_at is exactly STALE_TASK_TIMEOUT and moves it to
\* pending when the age is STALE_TASK_TIMEOUT + 1; an in-flight id without
\* any metadata is removed from in-flight, not requeued and not counted.
C33_StaleBoundary ==
    [][\A w \in Workers :
          /\ (pc[w] = "rec_loop" /\ items[w] # <<>> /\ pc'[w] # "down"
                 /\ <<pc[w], items[w]>> # <<pc'[w], items'[w]>>)
               => LET j == Head(items[w])
                      age == recNow[w] - meta[j].started
                  IN /\ (meta[j].ex /\ meta[j].started > 0 /\ age = STALE_TASK_TIMEOUT)
                           => /\ pc'[w] = "rec_loop"
                              /\ items'[w] = Tail(items[w])
                              /\ UNCHANGED <<pending, processing, recovered>>
                     /\ (meta[j].ex /\ meta[j].started > 0 /\ age = STALE_TASK_TIMEOUT + 1)
                           => pc'[w] = "rec_lrem" /\ job'[w] = j
                     /\ ~meta[j].ex => pc'[w] = "rec_orphan" /\ job'[w] = j
          /\ (pc[w] = "rec_orphan" /\ pc'[w] = "rec_loop")
               => /\ Count(processing', job[w]) = Count(processing, job[w]) - 1
                  /\ UNCHANGED <<pending, recovered>>
          /\ (pc[w] = "rec_lrem" /\ pc'[w] = "rec_lpush")
               => Count(processing', job[w]) = Count(processing, job[w]) - 1
          /\ (pc[w] = "rec_lpush" /\ pc'[w] = "rec_status")
               => pending'[1] = job[w] /\ Len(pending') = Len(pending) + 1
          /\ (pc[w] = "rec_status" /\ pc'[w] = "rec_loop")
               => recovered'[w] = recovered[w] + 1]_vars

\* recover_stale_tasks has returned and left in-flight a job stamped exactly
\* STALE_TASK_TIMEOUT before the call.
C33_Witness ==
    /\ pc[1] = "rec_ret"
    /\ recovered[1] = 0
    /\ \E j \in Range(processing) :
          meta[j].started > 0 /\ recNow[1] - meta[j].started = STALE_TASK_TIMEOUT

\* Positions of _queue_consumer_loop.
ConsumerPcs == {"deq", "deq_stamp", "get_meta", "mark", "run", "ack_lrem", "ack_status",
                "acked", "nack_hget", "nack_hset", "nack_err", "nack_lrem", "nack_push",
                "nack_status", "nacked"}

\* ---------------------------------------------------------------------
\* C34: when the dispatcher dequeues a job whose metadata record is missing
\* it acks the job and continues: no handler runs for it, the id is removed
\* from in-flight, and the loop goes on to the next dequeue; the loop never
\* exits on a handler or queue error (only the kill of the process ends it).
C34_MissingMetaAcked ==
    [][\A w \in Workers :
          /\ (pc[w] = "run" /\ job[w] \in bare /\ pc'[w] # "down" /\ pc'[w] # pc[w])
               => runs' = runs /\ pc'[w] = "ack_lrem"
          /\ (pc[w] \in ConsumerPcs /\ pc[w] # "deq" /\ job[w] \in bare /\ pc'[w] # "down")
               => pc'[w] \in {"deq", "deq_stamp", "get_meta", "mark", "run", "ack_lrem",
                              "ack_status", "acked"}
          /\ (pc[w] = "ack_lrem" /\ pc'[w] = "ack_status")
               => Count(processing', job[w]) = Count(processing, job[w]) - 1
                     \/ job[w] \notin Range(processing)
          /\ (pc[w] = "acked" /\ pc'[w] # "down" /\ pc'[w] # pc[w]) => pc'[w] = "deq"
          /\ (pc[w] \in ConsumerPcs /\ pc'[w] \notin ConsumerPcs)
               => pc'[w] = "down" /\ crashes' = crashes + 1]_vars

\* The dispatcher is back at dequeue_task after a job without metadata: the
\* job is out of in-flight, no handler has run, and no other job was in the
\* queue.
C34_Witness ==
    /\ pc[1] = "deq"
    /\ runs = 0
    /\ \E j \in bare : j \in acked /\ j \notin Range(processing) \cup Range(pending)

\* ---------------------------------------------------------------------
\* C35: the gateway retries only on a retryable response (429, 502, 503, 504
\* or a transport error); a response with any other error status fails the
\* call on that attempt, with no further request.
C35_NoRetryOnOtherErrors ==
    \A i \in 1..Len(gateway.history) :
        gateway.history[i] = "error"
            => /\ i = Len(gateway.history)
               /\ gateway.status \in {"raised", "idle"}

\* ---------------------------------------------------------------------
\* C37: the per-minute bucket map of a name stays bounded: after a write to
\* the name (the newest bucket is the minute of its last write) the map holds
\* no bucket older than MAX_MINUTES minutes, whether or not get_snapshot was
\* ever called.
C37_BucketsBounded ==
    \A name \in DOMAIN metrics.timeseries :
        \A k, newest \in DOMAIN metrics.timeseries[name] :
            k >= newest - MAX_MINUTES * 60

\* ---------------------------------------------------------------------
\* C36: in both limiter backends an earlier request whose timestamp equals
\* now - window exactly is trimmed and not counted: a principal at its limit
\* whose oldest request is exactly window seconds old is allowed, and the
\* boundary entry is gone from the stored log.
C36_BoundaryTrimmed ==
    [][(rcalls' = rcalls + 1 /\ fcalls' = fcalls + 1) =>
          LET boundary == now - rlWindow * Res IN
          /\ (zset # {} /\ Min(zset) = boundary /\ Cardinality(zset) = rlMax)
                => cret'[1].allowed /\ boundary \notin zset'
          /\ (request_log # <<>> /\ request_log[1] = boundary /\ Len(request_log) = rlMax)
                => /\ fret'.allowed
                   /\ \A i \in 1..Len(request_log') : request_log'[i] # boundary]_vars

\* Both backends were at the limit of two requests, the older one exactly one
\* window old, and the third call has just been allowed by both.
C36_Witness ==
    /\ rlMax = 2 /\ rcalls = 3
    /\ cret[1].allowed /\ fret.allowed
    /\ now - rlWindow * Res > 0
    /\ allowedR[now - rlWindow * Res] = 1 /\ allowedF[now - rlWindow * Res] = 1
    /\ Len(request_log) = 2 /\ request_log[2] = now
    /\ Cardinality(zset) = 2 /\ now \in zset

\* ---------------------------------------------------------------------
\* C40: every metadata record that exists carries a TTL: no queue operation
\* leaves a taskqueue:meta hash without an expiry, also when it writes to a
\* record that has already expired.
C40_MetaHasTTL ==
    \A j \in Jobs : meta[j].ex => meta[j].exp # 0

\* Positions of recover_stale_tasks.
RecoverPcs == {"rec_lrange", "rec_loop", "rec_orphan", "rec_lrem",
               "rec_lpush", "rec_status"}

\* ---------------------------------------------------------------------
\* C39: recover_stale_tasks leaves the retry count and last_error of every
\* job unchanged and puts nothing in the dead list: an attempt that ended in
\* a kill or a stall is not counted toward MAX_RETRIES, so recovery alone
\* never brings a job to the dead list.
C39_RecoveryKeepsRetries ==
    [][\A w \in Workers :
          (pc[w] \in RecoverPcs /\ pc'[w] # pc[w] /\ pc'[w] # "down")
             => /\ dead' = dead
                /\ \A j \in Jobs : /\ meta'[j].retries = meta[j].retries
                                   /\ meta'[j].last_error = meta[j].last_error]_vars

\* A job that failed once (retries 1, last_error set) was left in flight by a
\* killed dispatcher, requeued by stale recovery and is dispatched again with
\* the same retry count.
C39_Witness ==
    /\ pc[1] = "run"
    /\ crashes = 1
    /\ recovered[1] = 1
    /\ meta[job[1]].retries = 1 /\ meta[job[1]].last_error
    /\ dead = <<>>

\* No queue operation of a dispatcher or of the operator is under way: every
\* replica is down, about to call dequeue_task, or inside a handler after its
\* processing mark.
AllOperationsFinished ==
    /\ \A w \in Workers : pc[w] \in {"down", "deq", "run"}
    /\ ~AdminMidOp

\* ---------------------------------------------------------------------
\* C38: with two replicas, no kill, and no job old enough to be stale or to
\* have lost its metadata, once all started operations have finished the
\* metadata status agrees with list membership: a job in
\* in-flight does not have status queued, and a job in pending does not have
\* status processing or completed.
C38_StatusAgreesWithLists ==
    (AllOperationsFinished /\ crashes = 0 /\ now < STALE_TASK_TIMEOUT)
        => \A j \in Jobs :
              /\ j \in Range(processing) => meta[j].status # "queued"
              /\ j \in Range(pending) => meta[j].status \notin {"processing", "completed"}

\* The projects of the user that were created with credits_paid = True.
PaidProjects == {p \in ProjectIds : projects[p].ex /\ projects[p].credits_paid}

\* ---------------------------------------------------------------------
\* C31: for every project the number of rerolls performed never exceeds
\* MAX_REROLLS: reroll_count <= 3, scene_history holds at most 4 entries, and
\* no more than 3 reroll_scene calls have stored a scene, also when the calls
\* for one project run concurrently; a call is under way only for a project
\* that reached SCENE_GENERATED.
C31_RerollLimit ==
    /\ \A p \in ProjectIds :
          /\ projects[p].reroll_count <= MAX_REROLLS
          /\ Len(projects[p].scene_history) <= MAX_REROLLS + 1
          /\ phist.performed[p] <= MAX_REROLLS
    /\ \A t \in Workers :
          preq[t].pc \in {"reroll_generate", "persist"}
             => projects[preq[t].project_id].pipeline_status = "SCENE_GENERATED"

\* ---------------------------------------------------------------------
\* C32: create_project deducts one credit and creates the project as one
\* transaction: the balance is never negative, the user starts at most as
\* many projects as they had credits, and when no call is under way the
\* number of projects with credits_paid = True equals the credits deducted.
C32_PayToPlay ==
    /\ profile.credit_balance >= 0
    /\ Cardinality(PaidProjects) <= StartBalance
    /\ (\A t \in Workers : preq[t].pc = "idle")
          => Cardinality(PaidProjects) = StartBalance - profile.credit_balance

====
